---- MODULE Spec2Model ----
(***************************************************************************)
(* Model of the Bondifuzz base agent.                                      *)
(*                                                                         *)
(*   SpecExec  - UserContainerManager.exec_command driving one             *)
(*               ExecWSClient session (kubernetes/manager.py,              *)
(*               kubernetes/ws_client.py).                                 *)
(*   SpecEntry - agent_entry_inner wrapped by signal_handler (entry.py).   *)
(*                                                                         *)
(* Text is modelled as a sequence of one-character strings.  An optional   *)
(* value is a sequence of length 0 (None) or 1 (the value).                *)
(***************************************************************************)
EXTENDS Integers, Sequences, FiniteSets, TLC

VARIABLES
    \* ---- ExecWSClient (ws_client.py)
    ws,             \* [connected, sock, channels, returncode, stdout, stderr, combine_output]
    wsArgs,         \* history: the arguments ExecWSClient was constructed with
    frames,         \* history: the data frames update() received, in arrival order
    taken,          \* history: per channel, all the text read_channel has returned
    rcReads,        \* history: each read of returncode, [open, err, res]: whether the
                    \* session was open, the error-channel text then, the result
    ncalls,         \* calls made by the session's user other than update (bounded)
    closeCalls,     \* number of close() calls
    \* ---- exec_command (manager.py)
    xpc,            \* position inside exec_command
    runner_output,  \* accumulated stdout text
    runner_logs,    \* accumulated stderr text
    runner_exitcode,\* Option: the value read from resp.returncode
    cont_info,      \* Option: the container status read_fuzzer_container returned
    xresult,        \* how exec_command ended: [kind, exc, value]
    statusReads,    \* number of read_fuzzer_container calls made by this exec_command
    nframes,        \* frames received so far (bounded by MaxFrames)
    rxStdout,       \* history: concatenation of every stdout payload received
    \* ---- signal_handler / wrapper (entry.py)
    wpc,            \* position of wrapper()
    installed,      \* number of signums whose handler has been replaced
    handlers,       \* the handler the process has for each signum
    oldHandlers,    \* _handlers: what getsignal returned, in the order of signums
    catched,        \* _catched
    lock,           \* _lock is held
    hstack,         \* nested _signal_handler invocations on the main thread (top = last)
    delivered,      \* signals delivered so far
    cancelCalls,    \* number of task.cancel() invocations
    cancelPending,  \* a CancelledError is waiting for the task's next await
    handled,        \* number of _signal_handler invocations that returned
    cancelBy,       \* history: delivery number of the signal whose handler called cancel (0)
    \* ---- agent_entry_inner (entry.py)
    pc,             \* position inside agent_entry_inner
    py38,           \* TRUE: asyncio.CancelledError derives from BaseException (Python >= 3.8)
    mq,             \* "none" | "created" | "started" | "shutdown"
    measure,        \* "unbound" | "bound" | "measured"
    pollCount,      \* rounds of the readiness loop gone through (0 outside the loop)
    modeStatus,     \* Option: agent_mode.status
    runOutcome,     \* history: how agent_mode.run() ended and the crashes it had found
    crashes,        \* agent_mode.crashes
    crashIdx,       \* index of the next crash to send
    uploaded,       \* input ids uploaded to content storage
    crashMsgs,      \* crash messages produced
    currentExc,     \* Option: [raised, exc, ret]: what an outer except clause caught,
                    \* the error it reports and the value it returns
    after,          \* what agent_entry_inner does once its finally clause is through
    reports,        \* run-result messages successfully produced
    produceCalls,   \* number of sch_run_result.produce invocations
    metricsRead,    \* history, Option: how _dump_err found the metrics file
    lastRead,       \* history: what the last read of the readiness loop showed ("none")
    retval,         \* Option: how agent_entry_inner ended: [kind, value, exc]
    cancelAt,       \* history: position at which CancelledError was raised ("none")
    faults,         \* history: failures injected by the environment after run()
    \* ---- ExecWSClient.run_forever (ws_client.py)
    rfpc,           \* position of run_forever: "idle" | "loop" | "ended"
    rfTimeout,      \* Option: the timeout argument
    rfElapsed,      \* time.time() - start
    rfResult,       \* how run_forever ended: [kind, exc, value]
    \* ---- ObjectStorage (storage/s3/storage.py)
    store,          \* the S3 service: per (bucket, key) the object's bytes, or None
    put,            \* history: per (bucket, key) the last upload, [op, data, tree]
    last,           \* the most recent ObjectStorage call and how it ended
    \* ---- UserContainerManager and the pod it addresses (kubernetes/manager.py)
    cont_statuses,  \* pod.status.container_statuses as the API server reports them
    user_container, \* settings.kubernetes.user_container
    fuzzerRead,     \* how the last read_fuzzer_container ended: [kind, exc, value]
    execContainer,  \* Option: the container= argument of the last exec request
    logContainer,   \* Option: the container= argument of the last log request
    \* ---- ExecWSClient.update, one call at a time (kubernetes/ws_client.py)
    lastUpdate,     \* history, Option: the last update call: its timeout, the client
                    \* before and after it, and the receive() calls it made
    \* ---- FileTransfer, the unmerged corpus (transfer.py)
    corpus,         \* history: the last FileTransfer call: [op, keys, faults, before,
                    \* after, res, downloaded]
    \* ---- the 0.1.X to 0.2.X storage migration (local/migration/0.1.X-0.2.X/migrate.py)
    mig             \* [pc, old, new, revs, fuzzers, todo, todel, deleted, failed]

clientVars == <<wsArgs, frames, taken, rcReads, ncalls, closeCalls>>
wsVars    == <<ws, clientVars>>
execVars  == <<xpc, runner_output, runner_logs, runner_exitcode, cont_info,
               xresult, statusReads, nframes, rxStdout>>
sigVars   == <<wpc, installed, handlers, oldHandlers, catched, lock, hstack, delivered,
               cancelCalls, cancelPending, handled, cancelBy>>
entryVars == <<pc, py38, mq, measure, pollCount, modeStatus, runOutcome, crashes,
               crashIdx, uploaded, crashMsgs, currentExc, after, reports, produceCalls,
               metricsRead, lastRead,
               retval, cancelAt, faults>>
rfVars    == <<rfpc, rfTimeout, rfElapsed, rfResult>>
stVars    == <<store, put, last>>
podVars   == <<cont_statuses, user_container, fuzzerRead, execContainer, logContainer>>
updVars   == <<lastUpdate>>
trVars    == <<corpus>>
migVars   == <<mig>>
libVars   == <<rfVars, stVars, podVars, updVars, trVars, migVars>>
vars      == <<wsVars, execVars, sigVars, entryVars, libVars>>

None == <<>>
Some(v) == <<v>>
IsNone(o) == o = <<>>
IsSome(o) == o # <<>>
Val(o) == o[1]

(***************************************************************************)
(* Bounds                                                                  *)
(***************************************************************************)
MaxFrames == 3
MaxSignals == 2
MaxCrashes == 1
MaxCalls == 3
MaxDeadline == 2

(***************************************************************************)
(* Text helpers                                                            *)
(***************************************************************************)
Whitespace == {" ", "\n"}
Digits == {"0", "1", "2", "3", "4", "5", "6", "7", "8", "9"}

DigitVal(c) ==
    CASE c = "0" -> 0 [] c = "1" -> 1 [] c = "2" -> 2 [] c = "3" -> 3
      [] c = "4" -> 4 [] c = "5" -> 5 [] c = "6" -> 6 [] c = "7" -> 7
      [] c = "8" -> 8 [] c = "9" -> 9

RECURSIVE LStrip(_)
LStrip(s) == IF s # <<>> /\ Head(s) \in Whitespace THEN LStrip(Tail(s)) ELSE s

RECURSIVE RStrip(_)
RStrip(s) ==
    IF s # <<>> /\ s[Len(s)] \in Whitespace THEN RStrip(SubSeq(s, 1, Len(s) - 1)) ELSE s

\* str.strip()
Strip(s) == RStrip(LStrip(s))

LowerChar(c) ==
    CASE c = "O" -> "o" [] c = "M" -> "m" [] c = "K" -> "k" [] c = "I" -> "i"
      [] c = "L" -> "l" [] c = "E" -> "e" [] c = "D" -> "d" [] c = "R" -> "r"
      [] OTHER -> c

\* str.lower()
Lower(s) == [i \in 1..Len(s) |-> LowerChar(s[i])]

RECURSIVE DigitsValue(_, _)
DigitsValue(s, acc) ==
    IF s = <<>> THEN acc ELSE DigitsValue(Tail(s), acc * 10 + DigitVal(Head(s)))

AllDigits(s) == s # <<>> /\ \A i \in 1..Len(s) : s[i] \in Digits

\* int(text): surrounding whitespace is ignored, one optional sign, then
\* decimal digits.  None models ValueError.
ParseInt(text) ==
    LET s == Strip(text)
        signed == s # <<>> /\ Head(s) \in {"-", "+"}
        body == IF signed THEN Tail(s) ELSE s
    IN  IF ~AllDigits(body) THEN None
        ELSE IF signed /\ Head(s) = "-" THEN Some(0 - DigitsValue(body, 0))
        ELSE Some(DigitsValue(body, 0))

(***************************************************************************)
(* ExecWSClient (kubernetes/ws_client.py)                                  *)
(***************************************************************************)
STDIN_CHANNEL == 0
STDOUT_CHANNEL == 1
STDERR_CHANNEL == 2
ERROR_CHANNEL == 3
RESIZE_CHANNEL == 4

Channels == 0..4

\* ExecWSClient.__init__.  "not stdout or not stderr and combine_output"
\* groups as (not stdout) or ((not stderr) and combine_output).
WsNew(stdout, stderr, combine_output) ==
    LET reset == (~stdout) \/ ((~stderr) /\ combine_output)
    IN  [connected |-> TRUE,
         sock |-> TRUE,
         channels |-> [c \in Channels |-> None],
         returncode |-> None,
         stdout |-> IF reset THEN TRUE ELSE stdout,
         stderr |-> IF reset THEN TRUE ELSE stderr,
         combine_output |-> combine_output]

\* The dict self._channels: channels[c] is None when c is not a key.
\* peek_channel: dict.get
PeekChannel(w, channel, default) ==
    IF IsSome(w.channels[channel]) THEN w.channels[channel] ELSE default

\* read_channel: dict.pop, the client after the call
PopChannel(w, channel) == [w EXCEPT !.channels[channel] = None]

\* read_channel: dict.pop, the value returned
ReadChannel(w, channel, default) ==
    IF IsSome(w.channels[channel]) THEN w.channels[channel] ELSE default

\* The stdout and stderr accessors, each written with the channel its body
\* names.
PeekStdout(w, default) == PeekChannel(w, STDERR_CHANNEL, default)
ReadStdout(w, default) == ReadChannel(w, STDOUT_CHANNEL, default)
AfterReadStdout(w) == PopChannel(w, STDOUT_CHANNEL)
PeekStderr(w, default) == PeekChannel(w, STDERR_CHANNEL, default)
ReadStderr(w, default) == ReadChannel(w, STDERR_CHANNEL, default)
AfterReadStderr(w) == PopChannel(w, STDERR_CHANNEL)

IsOpen(w) == w.connected

\* The number of characters a frame needs before update() looks at it:
\* "if len(data) > 2", data being the channel byte followed by the payload.
FrameAccepted(msg) == 1 + Len(msg.payload) > 2

\* The channel a data frame is stored under, None when the frame is filtered.
TargetChannel(w, channel) ==
    IF \/ channel \notin {STDOUT_CHANNEL, STDERR_CHANNEL}
       \/ (channel = STDOUT_CHANNEL /\ w.stdout)
       \/ (channel = STDERR_CHANNEL /\ w.stderr)
    THEN IF channel = STDERR_CHANNEL /\ w.combine_output
         THEN Some(STDOUT_CHANNEL)
         ELSE Some(channel)
    ELSE None

Append2Channel(w, channel, data) ==
    [w EXCEPT !.channels[channel] =
        IF IsNone(w.channels[channel]) THEN Some(data)
        ELSE Some(Val(w.channels[channel]) \o data)]

\* Mutant of WsUpdate: the timeout is not looked at before receiving.
WsUpdateIgnoresTimeout(w, timeout, ev) ==
    IF ~IsOpen(w) THEN w
    ELSE IF ev.type = "SOCK_CLOSED" THEN [w EXCEPT !.connected = FALSE]
    ELSE IF ev.type = "CLOSE" THEN [w EXCEPT !.connected = FALSE]
    ELSE IF ev.type = "DATA" /\ FrameAccepted(ev) /\ IsSome(TargetChannel(w, ev.ch))
         THEN Append2Channel(w, Val(TargetChannel(w, ev.ch)), ev.payload)
    ELSE w

\* ExecWSClient.update(timeout) with what the socket then does: ev.type is
\* "SOCK_CLOSED" (sock.closed is true), "TIMEOUT" (receive timed out), "CLOSE",
\* "DATA" (a BINARY or TEXT message) or "OTHER" (any other message type).
WsUpdate(w, timeout, ev) ==
    IF ~IsOpen(w) THEN w
    ELSE IF ev.type = "SOCK_CLOSED" THEN [w EXCEPT !.connected = FALSE]
    ELSE IF timeout <= 0 THEN w
    ELSE IF ev.type = "CLOSE" THEN [w EXCEPT !.connected = FALSE]
    ELSE IF ev.type = "DATA" /\ FrameAccepted(ev) /\ IsSome(TargetChannel(w, ev.ch))
         THEN Append2Channel(w, Val(TargetChannel(w, ev.ch)), ev.payload)
    ELSE w

\* The error-channel text is a status document.  Its model: the first character
\* is the status ("S" for Success, "F" for Failure) and, for a failure, the rest
\* is details.causes[0].message.  Anything else fails to load or to index.
\* The result of the returncode property: [kind, exc, value].
Returned(v) == [kind |-> "return", exc |-> "", value |-> v]
Raised(e) == [kind |-> "raise", exc |-> e, value |-> 0]
\* No result: None, or a call that has not ended.
NoResult == [kind |-> "none", exc |-> "", value |-> 0]

\* Mutant of WsResolve: a missing error payload counts as success.
WsResolveMissingIsSuccess(w) ==
    LET err == PeekChannel(w, ERROR_CHANNEL, None)
    IN  IF IsNone(err) \/ Head(Val(err)) = "S" THEN Returned(0)
        ELSE IF IsNone(ParseInt(Tail(Val(err)))) THEN Raised("ValueError")
        ELSE Returned(Val(ParseInt(Tail(Val(err)))))

\* Lines 145-154: resolving the exit code of a closed session from the text
\* of the error channel.
WsResolve(w) ==
    LET err == PeekChannel(w, ERROR_CHANNEL, None)
    IN  IF IsNone(err) THEN Raised("ApiException")
        ELSE IF Val(err) = <<>> \/ Head(Val(err)) \notin {"S", "F"} THEN Raised("KeyError")
        ELSE IF Head(Val(err)) = "S" THEN Returned(0)
        ELSE IF IsNone(ParseInt(Tail(Val(err)))) THEN Raised("ValueError")
        ELSE Returned(Val(ParseInt(Tail(Val(err)))))

\* ExecWSClient.returncode: what reading the property gives; an open session
\* gives None.
WsReturncode(w) ==
    IF IsOpen(w) THEN NoResult
    ELSE IF IsSome(w.returncode) THEN Returned(Val(w.returncode))
    ELSE WsResolve(w)

\* Mutant of WsAfterReturncode: the resolved value is not kept.
WsAfterReturncodeNoMemo(w) == w

\* ... and the client after the read (the memo).
WsAfterReturncode(w) ==
    IF IsOpen(w) \/ IsSome(w.returncode) \/ WsResolve(w).kind = "raise" THEN w
    ELSE [w EXCEPT !.returncode = Some(WsResolve(w).value)]

\* Lines 87-97: whether update(timeout) gets as far as sock.receive(), that
\* is, takes a message from the connection.
Receives(w, timeout, ev) == IsOpen(w) /\ ev.type # "SOCK_CLOSED" /\ timeout > 0

\* Mutant of SuppressedOnClose: nothing is suppressed.
SuppressedOnCloseNothing(exc) == FALSE

\* Line 162: "with suppress(Exception)" around sock.close().
SuppressedOnClose(exc) == exc \in {"OSError", "RuntimeError"}

\* ExecWSClient.close: what the call gives, release being how sock.close()
\* ends ("ok" or the exception it raises); sock.close() is only called while
\* self.sock is set.
WsCloseResult(w, release) ==
    IF w.sock /\ release # "ok" /\ ~SuppressedOnClose(release)
    THEN Raised(release) ELSE Returned(0)

\* Mutant of WsClose: _connected is left as it is.
WsCloseStillConnected(w, release) == [w EXCEPT !.sock = FALSE]

\* ... and the client after the call: self.sock = None is reached unless the
\* release raised.
WsClose(w, release) ==
    [w EXCEPT !.connected = FALSE,
              !.sock = IF WsCloseResult(w, release).kind = "raise" THEN @ ELSE FALSE]


(***************************************************************************)
(* UserContainerManager.exec_command (kubernetes/manager.py)               *)
(***************************************************************************)
Txt7 == <<"7">>
Txt7nl == <<"7", "\n">>
Txt12 == <<"1", "2">>
TxtAbc == <<"a", "b", "c">>
TxtErr == <<"e", "r", "r">>
OomKilled == <<"o", "o", "m", "k", "i", "l", "l", "e", "d">>

\* What the socket can hand to one update() call.
DataFrame(ch, payload) == [type |-> "DATA", ch |-> ch, payload |-> payload]
Event(type) == [type |-> type, ch |-> 0, payload |-> <<>>]

StdoutFrames == {DataFrame(STDOUT_CHANNEL, p) : p \in {Txt7, Txt7nl, Txt12, TxtAbc}}
StderrFrames == {DataFrame(STDERR_CHANNEL, TxtErr)}
ErrorFrames ==
    {DataFrame(ERROR_CHANNEL, p) :
        p \in {<<"S", "u", "c">>, <<"F", "1", "0", "1">>, <<"F", "1", "0", "2">>,
               <<"F", "1", "3", "7">>, <<"F", "1", "4", "3">>, <<"F", "1", "\n">>}}
DataFrames == StdoutFrames \cup StderrFrames \cup ErrorFrames
ClosingEvents == {Event("CLOSE"), Event("SOCK_CLOSED")}
SocketEvents == DataFrames \cup ClosingEvents \cup {Event("OTHER")}

\* V1ContainerStatus.state as read_fuzzer_container returns it; a failed read
\* (the pod read raises, or no container matches) is state "api_error".
ContainerStatus(state, exit_code, reason) ==
    [state |-> state, exit_code |-> exit_code, reason |-> reason]
Reasons ==
    {None,
     Some(<<"O", "O", "M", "K", "i", "l", "l", "e", "d">>),
     Some(<<"o", "o", "m", "k", "i", "l", "l", "e", "d">>),
     Some(<<"O", "O", "M", "K", "I", "L", "L", "E", "D">>),
     Some(<<" ", "O", "O", "M", "K", "i", "l", "l", "e", "d">>),
     Some(<<"E", "r", "r", "o", "r">>)}
ContainerReads ==
    {ContainerStatus("running", 0, None), ContainerStatus("waiting", 0, None),
     ContainerStatus("api_error", 0, None)}
    \cup {ContainerStatus("terminated", c, r) : c \in {101, 102, 137, 1}, r \in Reasons}

\* Mutant of DispatchRunner: 101 is listed with the ambiguous codes.
DispatchRunnerAmbiguous101(code) ==
    IF code \in {101, 102, 128 + 9, 128 + 15} THEN "read_status"
    ELSE IF code # 0 THEN "InternalError"
    ELSE "parse"

\* The if/elif chain on runner_exitcode (lines 167-207): the branch taken.
DispatchRunner(code) ==
    IF code = 101 THEN "TimeLimitExceeded"
    ELSE IF code \in {102, 128 + 9, 128 + 15} THEN "read_status"
    ELSE IF code # 0 THEN "InternalError"
    ELSE "parse"

\* Mutant of ClassifyContainer: the reason is compared without lower().
ClassifyContainerCaseSensitive(st) ==
    IF st.state # "terminated" THEN "InternalError"
    ELSE IF st.exit_code = 101 THEN "TmpfsLimitExceeded"
    ELSE IF st.exit_code = 102 THEN "FuzzerAbortedError"
    ELSE IF IsNone(st.reason) THEN "AttributeError"
    ELSE IF Strip(Val(st.reason)) = OomKilled THEN "RamLimitExceeded"
    ELSE "monitor_logs"

\* Lines 175-200: the exception the ambiguous branch raises for a container
\* state; "monitor_logs" is the last branch, which first reads the monitor's
\* logs.  reason.strip() on an absent reason raises AttributeError.
ClassifyContainer(st) ==
    IF st.state # "terminated" THEN "InternalError"
    ELSE IF st.exit_code = 101 THEN "TmpfsLimitExceeded"
    ELSE IF st.exit_code = 102 THEN "FuzzerAbortedError"
    ELSE IF IsNone(st.reason) THEN "AttributeError"
    ELSE IF Lower(Strip(Val(st.reason))) = OomKilled THEN "RamLimitExceeded"
    ELSE "monitor_logs"

\* Lines 209-220: int(runner_output.strip())
ParseRunnerOutput(output) ==
    IF IsNone(ParseInt(Strip(output))) THEN Raised("InternalError")
    ELSE Returned(Val(ParseInt(Strip(output))))

\* Lines 124-152: the runner config is written and the exec session opened
\* with stdout=True, stderr=True, combine_output=False.
ExecStart ==
    /\ xpc = "start"
    /\ ws' = WsNew(TRUE, TRUE, FALSE)
    /\ xpc' = "loop"
    /\ UNCHANGED <<runner_output, runner_logs, runner_exitcode, cont_info, xresult,
                   statusReads, nframes, rxStdout>>
    /\ UNCHANGED <<clientVars, sigVars, entryVars, libVars>>

\* Lines 158-161: one iteration of the drain loop.
ExecLoop(ev) ==
    /\ xpc = "loop"
    /\ IsOpen(ws)
    /\ ev.type = "DATA" => nframes < MaxFrames
    /\ LET w1 == WsUpdate(ws, 5, ev)
           err == PeekChannel(w1, STDERR_CHANNEL, Some(<<>>))
           w2 == PopChannel(w1, STDERR_CHANNEL)
           out == PeekChannel(w2, STDOUT_CHANNEL, Some(<<>>))
           w3 == PopChannel(w2, STDOUT_CHANNEL)
       IN  /\ ws' = w3
           /\ runner_logs' = runner_logs \o Val(err)
           /\ runner_output' = runner_output \o Val(out)
    /\ nframes' = IF ev.type = "DATA" THEN nframes + 1 ELSE nframes
    /\ rxStdout' = IF ev.type = "DATA" /\ ev.ch = STDOUT_CHANNEL
                   THEN rxStdout \o ev.payload ELSE rxStdout
    /\ UNCHANGED <<xpc, runner_exitcode, cont_info, xresult, statusReads>>
    /\ UNCHANGED <<clientVars, sigVars, entryVars, libVars>>

\* Lines 164-220 up to the first await: resp.returncode is read and dispatched.
ExecResolve ==
    /\ xpc = "loop"
    /\ ~IsOpen(ws)
    /\ ws' = WsAfterReturncode(ws)
    /\ LET rc == WsReturncode(ws)
           branch == DispatchRunner(rc.value)
       IN  IF rc.kind = "raise"
           THEN /\ xresult' = Raised(rc.exc)
                /\ xpc' = "done"
                /\ UNCHANGED runner_exitcode
           ELSE /\ runner_exitcode' = Some(rc.value)
                /\ xpc' = IF branch = "read_status" THEN "read_status" ELSE "done"
                /\ xresult' = IF branch = "read_status" THEN xresult
                              ELSE IF branch = "parse" THEN ParseRunnerOutput(runner_output)
                              ELSE Raised(branch)
    /\ UNCHANGED <<runner_output, runner_logs, cont_info, statusReads, nframes, rxStdout>>
    /\ UNCHANGED <<clientVars, sigVars, entryVars, libVars>>

\* Lines 172-200: read_fuzzer_container answers and the state is classified;
\* logs_ok says whether read_monitor_output, if called, succeeds.
ExecReadStatus(st, logs_ok) ==
    /\ xpc = "read_status"
    /\ statusReads' = statusReads + 1
    /\ xpc' = "done"
    /\ IF st.state = "api_error"
       THEN /\ xresult' = Raised("ApiException")
            /\ UNCHANGED cont_info
       ELSE /\ cont_info' = Some(st)
            /\ xresult' = IF ClassifyContainer(st) # "monitor_logs"
                          THEN Raised(ClassifyContainer(st))
                          ELSE IF logs_ok THEN Raised("InternalError")
                          ELSE Raised("ApiException")
    /\ UNCHANGED <<ws, runner_output, runner_logs, runner_exitcode, nframes, rxStdout>>
    /\ UNCHANGED <<clientVars, sigVars, entryVars, libVars>>

ExecLocalsInit ==
    /\ xpc = "start"
    /\ runner_output = <<>>
    /\ runner_logs = <<>>
    /\ runner_exitcode = None
    /\ cont_info = None
    /\ xresult = NoResult
    /\ statusReads = 0
    /\ nframes = 0
    /\ rxStdout = <<>>

\* The session's user has made no call yet.
ClientInit ==
    /\ frames = <<>>
    /\ taken = [c \in Channels |-> <<>>]
    /\ rcReads = <<>>
    /\ ncalls = 0
    /\ closeCalls = 0

ExecInit ==
    /\ wsArgs = [stdout |-> TRUE, stderr |-> TRUE, combine_output |-> FALSE]
    /\ ClientInit
    /\ ws = WsNew(TRUE, TRUE, FALSE)
    /\ ExecLocalsInit

ExecNext ==
    \/ ExecStart
    \/ \E ev \in SocketEvents : ExecLoop(ev)
    \/ ExecResolve
    \/ \E st \in ContainerReads, logs_ok \in BOOLEAN : ExecReadStatus(st, logs_ok)


(***************************************************************************)
(* Error taxonomy (errors/errors.py) and report data (output.py)           *)
(***************************************************************************)
E_INTERNAL_ERROR == "E_INTERNAL_ERROR"
E_FUZZER_ABORTED == "E_FUZZER_ABORTED"
E_FUZZER_LAUNCH_ERROR == "E_FUZZER_LAUNCH_ERROR"
E_RAM_LIMIT_EXCEEDED == "E_RAM_LIMIT_EXCEEDED"
E_TMPFS_LIMIT_EXCEEDED == "E_TMPFS_LIMIT_EXCEEDED"
E_SUCCESS == "E_SUCCESS"

\* An exception object.  agent: it is an instance of AgentError.  text: str()
\* of an exception that is not an AgentError.
AgentError(cls, code, message, details) ==
    [cls |-> cls, agent |-> TRUE, code |-> code, message |-> message,
     details |-> details, text |-> ""]
OtherException(cls, text) ==
    [cls |-> cls, agent |-> FALSE, code |-> "", message |-> "", details |-> None,
     text |-> text]

InternalError(details) == AgentError("InternalError", E_INTERNAL_ERROR, "Internal error", details)
FuzzerLaunchError(message, details) ==
    AgentError("FuzzerLaunchError", E_FUZZER_LAUNCH_ERROR, message, details)
FuzzerAbortedError == AgentError("FuzzerAbortedError", E_FUZZER_ABORTED, "Fuzzer aborted", None)
RamLimitExceeded ==
    AgentError("RamLimitExceeded", E_RAM_LIMIT_EXCEEDED, "Ram limit exceeded", None)
TmpfsLimitExceeded ==
    AgentError("TmpfsLimitExceeded", E_TMPFS_LIMIT_EXCEEDED, "No space left on tmpfs", None)
\* class TimeLimitExceeded(InternalError): pass
TimeLimitExceeded == [InternalError(None) EXCEPT !.cls = "TimeLimitExceeded"]
\* class FileUploadError(InternalError): pass
FileUploadError(details) == [InternalError(Some(details)) EXCEPT !.cls = "FileUploadError"]
CancelledError == OtherException("CancelledError", "")
NoException == OtherException("", "")

\* output.Status
Status(code, message, details) == [code |-> code, message |-> message, details |-> details]
StatusOf(e) == Status(e.code, e.message, e.details)
\* The status a run mode sets when run() completes.
SuccessStatus == Status(E_SUCCESS, "Success", None)

\* What agent_mode.run() can raise.
ExcTexts == {"secret token", "Unhandled error"}
RunAgentErrors ==
    {RamLimitExceeded, TimeLimitExceeded, FuzzerAbortedError,
     FuzzerLaunchError("Failed to launch", Some("exit code 1"))}
RunOtherErrors ==
    {OtherException("Exception", "Unhandled error"), OtherException("KeyError", "secret token")}


(***************************************************************************)
(* signal_handler (entry.py, lines 56-95)                                  *)
(***************************************************************************)
\* @signal_handler([SIGINT, SIGTERM, SIGHUP])
NumSignums == 3

sigRest == <<wpc, installed, handlers, oldHandlers, catched, lock, hstack, delivered,
             cancelCalls, handled, cancelBy>>

\* The handlers the process has when wrapper() is called, one per signum:
\* Python's own for SIGINT, the default action for SIGTERM, SIGHUP ignored
\* (a process started under nohup).
PriorHandlers == <<"default_int_handler", "SIG_DFL", "SIG_IGN">>
\* new_handler = get_handler(task)
NewHandler == "_signal_handler"

\* Mutant of RestoreHandlers: the handlers are left as they are.
RestoreHandlersNot(current, old) == current

\* Lines 91-92: for signum, old_handler in zip(signums, _handlers):
\* signal(signum, old_handler).
RestoreHandlers(current, old) ==
    [n \in DOMAIN current |-> IF n <= Len(old) THEN old[n] ELSE current[n]]

Top == hstack[Len(hstack)]
Pop == SubSeq(hstack, 1, Len(hstack) - 1)
\* Python runs a signal handler on the main thread, between two bytecodes of
\* whatever runs there: the wrapper, the task, or another handler invocation.
MainThreadFree == hstack = <<>>

\* wrapper, lines 85-87: one round of the installing loop.
WInstall ==
    /\ wpc = "install"
    /\ MainThreadFree
    /\ installed' = installed + 1
    /\ oldHandlers' = Append(oldHandlers, handlers[installed + 1])
    /\ handlers' = [handlers EXCEPT ![installed + 1] = NewHandler]
    /\ wpc' = IF installed + 1 = NumSignums THEN "await" ELSE "install"
    /\ UNCHANGED <<catched, lock, hstack, delivered, cancelCalls, cancelPending,
                   handled, cancelBy>>
    /\ UNCHANGED <<wsVars, execVars, entryVars, libVars>>

\* wrapper, lines 89-92: the task has ended; the finally clause puts the old
\* handlers back.
WRestore ==
    /\ wpc = "await"
    /\ MainThreadFree
    /\ pc = "done"
    /\ installed' = 0
    /\ handlers' = RestoreHandlers(handlers, oldHandlers)
    /\ wpc' = "done"
    /\ UNCHANGED <<oldHandlers, catched, lock, hstack, delivered, cancelCalls, cancelPending,
                   handled, cancelBy>>
    /\ UNCHANGED <<wsVars, execVars, entryVars, libVars>>

\* A signal whose handler has been installed is delivered: _signal_handler is
\* entered (line 62).
Signal(signum) ==
    /\ handlers[signum] = NewHandler
    /\ delivered < MaxSignals
    /\ delivered' = delivered + 1
    /\ hstack' = Append(hstack, [id |-> delivered + 1, hpc |-> "enter"])
    /\ UNCHANGED <<wpc, installed, handlers, oldHandlers, catched, lock, cancelCalls,
                   cancelPending, handled, cancelBy>>
    /\ UNCHANGED <<wsVars, execVars, entryVars, libVars>>

\* Line 64: "with _lock" of the innermost invocation; threading.Lock is not
\* reentrant, the acquire waits while the lock is held.
HAcquire ==
    /\ hstack # <<>>
    /\ Top.hpc = "enter"
    /\ ~lock
    /\ lock' = TRUE
    /\ hstack' = [hstack EXCEPT ![Len(hstack)].hpc = "locked"]
    /\ UNCHANGED <<wpc, installed, handlers, oldHandlers, catched, delivered,
                   cancelCalls, cancelPending, handled, cancelBy>>
    /\ UNCHANGED <<wsVars, execVars, entryVars, libVars>>

\* Mutant of HandlerCancels: the flag is not consulted.
HandlerCancelsAlways(c) == TRUE

\* Line 65: "if _catched: return"; otherwise the invocation goes on to cancel.
HandlerCancels(c) == ~c

\* Lines 65-73 and the release of the lock.  task.cancel() on a task that has
\* ended does nothing.
HBody ==
    /\ hstack # <<>>
    /\ Top.hpc = "locked"
    /\ IF HandlerCancels(catched)
       THEN /\ catched' = TRUE
            /\ cancelCalls' = cancelCalls + 1
            /\ cancelBy' = Top.id
            /\ cancelPending' = (pc # "done")
       ELSE UNCHANGED <<catched, cancelCalls, cancelBy, cancelPending>>
    /\ lock' = FALSE
    /\ hstack' = Pop
    /\ handled' = handled + 1
    /\ UNCHANGED <<wpc, installed, handlers, oldHandlers, delivered>>
    /\ UNCHANGED <<wsVars, execVars, entryVars, libVars>>

SigInit ==
    /\ wpc = "install"
    /\ installed = 0
    /\ handlers = PriorHandlers
    /\ oldHandlers = <<>>
    /\ catched = FALSE
    /\ lock = FALSE
    /\ hstack = <<>>
    /\ delivered = 0
    /\ cancelCalls = 0
    /\ cancelPending = FALSE
    /\ handled = 0
    /\ cancelBy = 0


(***************************************************************************)
(* agent_entry_inner (entry.py, lines 174-302)                             *)
(***************************************************************************)
\* for _ in range(5)
PollAttempts == 5
\* settings.fuzzer.crash_max_size
CrashMaxSize == 4

\* base64: the value of a character of the alphabet (two of its 64
\* characters are used) and b64decode, which takes four characters to three
\* bytes; None models binascii.Error (the length is no multiple of four).
B64Value(c) == IF c = "A" THEN 0 ELSE 63
B64Group(s, k) ==
    LET v == ((B64Value(s[4 * k + 1]) * 64 + B64Value(s[4 * k + 2])) * 64
              + B64Value(s[4 * k + 3])) * 64 + B64Value(s[4 * k + 4])
    IN  <<v \div 65536, (v \div 256) % 256, v % 256>>
RECURSIVE B64Groups(_, _)
B64Groups(s, k) ==
    IF 4 * k >= Len(s) THEN <<>> ELSE B64Group(s, k) \o B64Groups(s, k + 1)
B64Decode(s) == IF Len(s) % 4 # 0 THEN None ELSE Some(B64Groups(s, 0))

\* A CrashBase record: input and input_id are optional, and nothing in the
\* class relates one to the other.
Crash(input, input_id) == [input |-> input, input_id |-> input_id]
ExternalId == <<"external">>
\* run_id + random_string(10): an id no other crash of the run has.
FreshId(i) == <<"run_id", i>>
B64Text(n) == [i \in 1..n |-> IF i % 2 = 1 THEN "A" ELSE "/"]
SmallInput == B64Text(4 * (CrashMaxSize \div 4))
BigInput == B64Text(4 * (CrashMaxSize \div 4) + 4)
CrashKinds ==
    {Crash(Some(SmallInput), None), Crash(Some(BigInput), None),
     Crash(None, Some(ExternalId)), Crash(Some(SmallInput), Some(ExternalId))}
\* While signals are being delivered a crash carries its input or the id of
\* an input uploaded elsewhere, not both.
CrashLists ==
    UNION {[1..n -> CrashKinds \ {Crash(Some(SmallInput), Some(ExternalId))}] :
              n \in 0..MaxCrashes}
\* Lists of crashes of every kind with one crash more, for the runs no signal
\* disturbs.
LongCrashLists == UNION {[1..n -> CrashKinds] : n \in 0..(MaxCrashes + 1)}

\* The task runs when the wrapper awaits it and no handler is on the stack.
TaskRuns == wpc = "await" /\ MainThreadFree

\* An await that suspends: a pending cancellation is raised there.
TakeCancel == cancelPending /\ cancelPending' = FALSE /\ cancelAt' = pc
NoCancel == ~cancelPending /\ UNCHANGED <<cancelPending, cancelAt>>

\* Lines 233-234: whether "except Exception" catches e.  CancelledError is an
\* Exception up to Python 3.7 and a BaseException from 3.8 on.
CaughtByInner(e) == e.cls # "CancelledError" \/ ~py38

\* Mutant of ClassifyRunError: every error of run() is reported as internal.
ClassifyRunErrorAllInternal(e) ==
    IF e.cls = "CancelledError" THEN FuzzerAbortedError ELSE InternalError(None)

\* Mutant of ClassifyRunError: the text of an unrecognized exception becomes
\* the details of the internal error.
ClassifyRunErrorWithText(e) ==
    IF e.cls = "CancelledError" THEN FuzzerAbortedError
    ELSE IF ~e.agent THEN InternalError(Some(e.text))
    ELSE e

\* Lines 234-242: the error whose code, message and details become the status.
ClassifyRunError(e) ==
    IF e.cls = "CancelledError" THEN FuzzerAbortedError
    ELSE IF ~e.agent THEN InternalError(None)
    ELSE e

\* Mutant of OuterHandler: both reporting clauses return 2.
OuterHandlerAlways2(e) ==
    IF e.cls = "CancelledError" /\ ~e.agent THEN None
    ELSE Some([raised |-> e, exc |-> IF e.agent THEN e ELSE InternalError(None), ret |-> 2])

\* Mutant of OuterHandler: a cancellation is reported like a controlled abort.
OuterHandlerReportsCancel(e) ==
    IF e.agent THEN Some([raised |-> e, exc |-> e, ret |-> 2])
    ELSE IF e.cls = "CancelledError"
    THEN Some([raised |-> e, exc |-> FuzzerAbortedError, ret |-> 2])
    ELSE Some([raised |-> e, exc |-> InternalError(None), ret |-> 3])

\* Lines 285-297: the except clause of the main try block that takes e: the
\* error it reports and the value it returns; None for CancelledError (pass).
OuterHandler(e) ==
    IF e.agent THEN Some([raised |-> e, exc |-> e, ret |-> 2])
    ELSE IF e.cls = "CancelledError" THEN None
    ELSE Some([raised |-> e, exc |-> InternalError(None), ret |-> 3])

\* e is raised inside the main try block, outside the inner one.
RaiseMain(e) ==
    /\ currentExc' = OuterHandler(e)
    /\ pc' = IF IsSome(OuterHandler(e)) THEN "dump_err" ELSE "shutdown"
    /\ after' = IF IsSome(OuterHandler(e)) THEN after ELSE Returned(0)

\* The message _dump_ok / _dump_err hands to sch_run_result.produce.
OkReport(metrics) ==
    [schema |-> "ok", status |-> Val(modeStatus), crashes_found |-> Len(crashes),
     metrics |-> metrics]
ErrReport(e, metrics) ==
    [schema |-> "err", status |-> StatusOf(e), crashes_found |-> 0, metrics |-> metrics]

\* Mutant of Produce: the message is not sent.
ProduceNothing(sent, message) == sent

\* Lines 99 and 124: sch_run_result.produce(...) that succeeds: the messages
\* the scheduler's queue then holds.
Produce(sent, message) == Append(sent, message)

\* The task's first step.  A task cancelled before its first step never runs
\* its body: the wrapper's "await task" raises CancelledError.
EntryStart ==
    /\ TaskRuns
    /\ pc = "notstarted"
    /\ \/ /\ TakeCancel
          /\ pc' = "done"
          /\ retval' = Some(Raised("CancelledError"))
       \/ /\ NoCancel
          /\ pc' = "init_mq"
          /\ UNCHANGED retval
    /\ UNCHANGED <<py38, mq, measure, pollCount, modeStatus, runOutcome, crashes,
                   crashIdx, uploaded, crashMsgs, currentExc, after, reports,
                   produceCalls, metricsRead, lastRead, faults>>
    /\ UNCHANGED <<sigRest, wsVars, execVars, libVars>>

\* Lines 179-193: load_app_settings, mq_init (which shuts the app down itself
\* when it fails) and mq_app.start(); how = "ok" | "fail".
EntryInit(how) ==
    /\ TaskRuns
    /\ pc \in {"init_mq", "init_start"}
    /\ \/ /\ TakeCancel
          /\ pc' = "done"
          /\ retval' = Some(Returned(0))
          /\ UNCHANGED <<mq, faults>>
       \/ /\ NoCancel
          /\ how = "fail"
          /\ pc' = "done"
          /\ retval' = Some(Returned(1))
          /\ faults' = faults \cup {"init"}
          /\ UNCHANGED mq
       \/ /\ NoCancel
          /\ how = "ok"
          /\ pc' = IF pc = "init_mq" THEN "init_start" ELSE "create_mgr"
          /\ mq' = IF pc = "init_mq" THEN "created" ELSE "started"
          /\ UNCHANGED <<retval, faults>>
    /\ UNCHANGED <<py38, measure, pollCount, modeStatus, runOutcome, crashes,
                   crashIdx, uploaded, crashMsgs, currentExc, after, reports,
                   produceCalls, metricsRead, lastRead>>
    /\ UNCHANGED <<sigRest, wsVars, execVars, libVars>>

PreRunErrors == {InternalError(None), OtherException("OSError", "Unhandled error")}

\* Lines 197-198: object_storage_init and UserContainerManager.create, which
\* suspends only outside a cluster (load_kube_config): a pending cancellation
\* may pass this await.
EntryCreateMgr(e) ==
    /\ TaskRuns
    /\ pc = "create_mgr"
    /\ \/ /\ TakeCancel
          /\ RaiseMain(CancelledError)
          /\ UNCHANGED faults
       \/ /\ UNCHANGED <<cancelPending, cancelAt>>
          /\ e = None
          /\ pc' = "poll"
          /\ UNCHANGED <<currentExc, after, faults>>
       \/ /\ UNCHANGED <<cancelPending, cancelAt>>
          /\ e # None
          /\ RaiseMain(Val(e))
          /\ faults' = faults \cup {"pre"}
    /\ UNCHANGED <<py38, mq, measure, pollCount, modeStatus, runOutcome, crashes,
                   crashIdx, uploaded, crashMsgs, reports, produceCalls, metricsRead, lastRead, retval>>
    /\ UNCHANGED <<sigRest, wsVars, execVars, libVars>>

\* Lines 201-205: read_fuzzer_container in one round of the readiness loop,
\* then break when the container runs.
EntryPoll(read) ==
    /\ TaskRuns
    /\ pc = "poll"
    /\ \/ /\ TakeCancel
          /\ RaiseMain(CancelledError)
          /\ pollCount' = 0
          /\ lastRead' = "none"
          /\ UNCHANGED faults
       \/ /\ NoCancel
          /\ read = "api_error"
          /\ RaiseMain(OtherException("ApiException", "Unhandled error"))
          /\ pollCount' = 0
          /\ lastRead' = "none"
          /\ faults' = faults \cup {"pre"}
       \/ /\ NoCancel
          /\ read \in {"running", "waiting", "terminated"}
          /\ pc' = IF read = "running" THEN "select" ELSE "poll_sleep"
          /\ pollCount' = IF read = "running" THEN 0 ELSE pollCount + 1
          /\ lastRead' = read
          /\ UNCHANGED <<currentExc, after, faults>>
    /\ UNCHANGED <<py38, mq, measure, modeStatus, runOutcome, crashes,
                   crashIdx, uploaded, crashMsgs, reports, produceCalls, metricsRead, retval>>
    /\ UNCHANGED <<sigRest, wsVars, execVars, libVars>>

\* Mutant of PollAgain: one more round than the range has.
PollAgainOnceMore(n) == n <= PollAttempts

\* Whether the readiness loop goes round again after n reads.
PollAgain(n) == n < PollAttempts

\* Lines 207-211: asyncio.sleep(1), then the next round or, when the range is
\* used up, the loop's else clause: raise InternalError().
EntryPollSleep ==
    /\ TaskRuns
    /\ pc = "poll_sleep"
    /\ \/ /\ TakeCancel
          /\ RaiseMain(CancelledError)
          /\ pollCount' = 0
          /\ lastRead' = "none"
          /\ UNCHANGED faults
       \/ /\ NoCancel
          /\ PollAgain(pollCount)
          /\ pc' = "poll"
          /\ UNCHANGED <<currentExc, after, faults, pollCount, lastRead>>
       \/ /\ NoCancel
          /\ ~PollAgain(pollCount)
          /\ RaiseMain(InternalError(None))
          /\ lastRead' = "none"
          /\ UNCHANGED pollCount
          /\ faults' = faults \cup {"pre"}
    /\ UNCHANGED <<py38, mq, measure, modeStatus, runOutcome, crashes,
                   crashIdx, uploaded, crashMsgs, reports, produceCalls, metricsRead, retval>>
    /\ UNCHANGED <<sigRest, wsVars, execVars, libVars>>

\* Lines 216-228: select_mode, os.chdir, measure = TimeMeasure(); nothing here
\* suspends.
EntrySelect(e) ==
    /\ TaskRuns
    /\ pc = "select"
    /\ \/ /\ e = None
          /\ pc' = "run"
          /\ measure' = "bound"
          /\ UNCHANGED <<currentExc, after, faults>>
       \/ /\ e # None
          /\ RaiseMain(Val(e))
          /\ faults' = faults \cup {"pre"}
          /\ UNCHANGED measure
    /\ UNCHANGED <<py38, mq, pollCount, modeStatus, runOutcome, crashes, crashIdx,
                   uploaded, crashMsgs, reports, produceCalls, metricsRead, lastRead, retval, cancelAt>>
    /\ UNCHANGED <<cancelPending, sigRest, wsVars, execVars, libVars>>


\* How agent_mode.run() ends: it returns, or raises e.
RunRaises == {Some(e) : e \in RunAgentErrors \cup RunOtherErrors}

\* Lines 229-250: agent_mode.run() under measure.measuring(), and the inner
\* except clause.  The run mode has collected found when run() ends.
EntryRun(e, found) ==
    /\ TaskRuns
    /\ pc = "run"
    /\ measure' = "measured"
    /\ crashes' = found
    /\ crashIdx' = 1
    /\ \/ /\ NoCancel
          /\ e = None
          /\ runOutcome' = [kind |-> "return", exc |-> NoException, found |-> found]
          /\ modeStatus' = Some(SuccessStatus)
          /\ pc' = "metrics"
          /\ UNCHANGED <<currentExc, after>>
       \/ /\ NoCancel
          /\ e # None
          /\ runOutcome' = [kind |-> "raise", exc |-> Val(e), found |-> found]
          /\ modeStatus' = Some(StatusOf(ClassifyRunError(Val(e))))
          /\ pc' = "metrics"
          /\ UNCHANGED <<currentExc, after>>
       \/ /\ TakeCancel
          /\ e = None
          /\ runOutcome' = [kind |-> "cancel", exc |-> CancelledError, found |-> found]
          /\ IF CaughtByInner(CancelledError)
             THEN /\ modeStatus' = Some(StatusOf(ClassifyRunError(CancelledError)))
                  /\ pc' = "metrics"
                  /\ UNCHANGED <<currentExc, after>>
             ELSE /\ RaiseMain(CancelledError)
                  /\ UNCHANGED modeStatus
    /\ UNCHANGED <<py38, mq, pollCount, uploaded, crashMsgs, reports, produceCalls, metricsRead, lastRead,
                   retval, faults>>
    /\ UNCHANGED <<sigRest, wsVars, execVars, libVars>>

\* The metrics file as a read finds it, and what json.loads and Metrics(**...)
\* make of it: None models the exception open() or the parser raises.
MetricsFiles == {"ok", "missing", "corrupt"}
FileMetrics == [tmpfs |-> 7, memory |-> 9]
ZeroMetrics == [tmpfs |-> 0, memory |-> 0]
ParseMetrics(file) == IF file = "ok" THEN Some(FileMetrics) ELSE None
MetricsError(file) ==
    IF file = "missing" THEN OtherException("FileNotFoundError", "Unhandled error")
    ELSE OtherException("JSONDecodeError", "Unhandled error")

\* Lines 252-255: the metrics file is read and parsed; nothing suspends.
EntryMetrics(file) ==
    /\ TaskRuns
    /\ pc = "metrics"
    /\ IF IsSome(ParseMetrics(file))
       THEN pc' = "finish" /\ UNCHANGED <<currentExc, after, faults>>
       ELSE /\ RaiseMain(MetricsError(file))
            /\ faults' = faults \cup {"metrics"}
    /\ UNCHANGED <<py38, mq, measure, pollCount, modeStatus, runOutcome, crashes,
                   crashIdx, uploaded, crashMsgs, reports, produceCalls, metricsRead, lastRead,
                   retval, cancelAt>>
    /\ UNCHANGED <<cancelPending, sigRest, wsVars, execVars, libVars>>

\* Mutant of CrashLoop: the last crash of the list is left out.
CrashLoopLeavesLast(idx, list) == IF idx < Len(list) THEN "crashes" ELSE "dump_ok"

\* Lines 263-274: "for crash in agent_mode.crashes", idx being the next index:
\* another _send_crash, or on to the report.
CrashLoop(idx, list) == IF idx <= Len(list) THEN "crashes" ELSE "dump_ok"

FinishErrors == {FileUploadError("unmerged_corpus"), OtherException("OSError", "Unhandled error")}

\* Lines 257-262: agent_mode.finish().
EntryFinish(e) ==
    /\ TaskRuns
    /\ pc = "finish"
    /\ \/ /\ TakeCancel
          /\ RaiseMain(CancelledError)
          /\ UNCHANGED faults
       \/ /\ NoCancel
          /\ e = None
          /\ pc' = CrashLoop(crashIdx, crashes)
          /\ UNCHANGED <<currentExc, after, faults>>
       \/ /\ NoCancel
          /\ e # None
          /\ RaiseMain(Val(e))
          /\ faults' = faults \cup {"finish"}
    /\ UNCHANGED <<py38, mq, measure, pollCount, modeStatus, runOutcome, crashes,
                   crashIdx, uploaded, crashMsgs, reports, produceCalls, metricsRead, lastRead, retval>>
    /\ UNCHANGED <<sigRest, wsVars, execVars, libVars>>


\* Mutant of Oversized: an input of exactly crash_max_size is offloaded too.
OversizedOrEqual(input) == Len(input) >= CrashMaxSize

\* Line 153: whether _send_crash offloads the input.
Oversized(input) == Len(input) > CrashMaxSize

\* Mutant of Offload: the inline input is kept.
OffloadKeepingInput(crash, input_id) == Crash(crash.input, Some(input_id))

\* Lines 157-158: crash.input_id = input_id; crash.input = None.
Offload(crash, input_id) == Crash(None, Some(input_id))

\* Lines 153-171: _send_crash for the next crash of the list.  The upload is
\* synchronous; produce is the only await.  up_ok: upload_crash succeeds;
\* sent: what produce does ("ok" | "fail").
EntrySendCrash(up_ok, sent) ==
    /\ TaskRuns
    /\ pc = "crashes"
    /\ LET crash == crashes[crashIdx]
           big == IsSome(crash.input) /\ Oversized(Val(crash.input))
           input_id == FreshId(crashIdx)
           offloaded == Offload(crash, input_id)
           emitted == IF big THEN offloaded ELSE crash
       IN  IF IsNone(crash.input)
           THEN \* len(None) raises TypeError
                /\ RaiseMain(OtherException("TypeError", "Unhandled error"))
                /\ faults' = faults \cup {"crash_input"}
                /\ UNCHANGED <<crashes, crashIdx, uploaded, crashMsgs, cancelPending,
                               cancelAt>>
           ELSE IF big /\ ~up_ok
           THEN /\ RaiseMain(FileUploadError("crash"))
                /\ faults' = faults \cup {"crash_upload"}
                /\ UNCHANGED <<crashes, crashIdx, uploaded, crashMsgs, cancelPending,
                               cancelAt>>
           ELSE /\ crashes' = [crashes EXCEPT ![crashIdx] = emitted]
                /\ uploaded' = IF big
                               THEN uploaded \cup
                                    {[id |-> input_id, bytes |-> B64Decode(Val(crash.input))]}
                               ELSE uploaded
                /\ \/ /\ TakeCancel
                      /\ RaiseMain(CancelledError)
                      /\ UNCHANGED <<crashIdx, crashMsgs, faults>>
                   \/ /\ NoCancel
                      /\ sent = "fail"
                      /\ RaiseMain(OtherException("MQError", "Unhandled error"))
                      /\ faults' = faults \cup {"crash_produce"}
                      /\ UNCHANGED <<crashIdx, crashMsgs>>
                   \/ /\ NoCancel
                      /\ sent = "ok"
                      /\ crashMsgs' = Append(crashMsgs, emitted)
                      /\ crashIdx' = crashIdx + 1
                      /\ pc' = CrashLoop(crashIdx + 1, crashes)
                      /\ UNCHANGED <<currentExc, after, faults>>
    /\ UNCHANGED <<py38, mq, measure, pollCount, modeStatus, runOutcome, reports,
                   produceCalls, metricsRead, lastRead, retval>>
    /\ UNCHANGED <<sigRest, wsVars, execVars, libVars>>

\* Lines 274-283: _dump_ok.  A produce that is cancelled may or may not have
\* sent the message.
EntryDumpOk(sent) ==
    /\ TaskRuns
    /\ pc = "dump_ok"
    /\ produceCalls' = produceCalls + 1
    /\ UNCHANGED <<metricsRead, lastRead>>
    /\ \/ /\ NoCancel
          /\ sent = "ok"
          /\ reports' = Produce(reports, OkReport(Val(ParseMetrics("ok"))))
          /\ pc' = "shutdown"
          /\ after' = Returned(0)
          /\ UNCHANGED <<currentExc, faults>>
       \/ /\ NoCancel
          /\ sent = "fail"
          /\ RaiseMain(OtherException("MQError", "Unhandled error"))
          /\ faults' = faults \cup {"produce_ok"}
          /\ UNCHANGED reports
       \/ /\ TakeCancel
          /\ reports' = IF sent = "ok" THEN Produce(reports, OkReport(Val(ParseMetrics("ok")))) ELSE reports
          /\ RaiseMain(CancelledError)
          /\ UNCHANGED faults
    /\ UNCHANGED <<py38, mq, measure, pollCount, modeStatus, runOutcome, crashes,
                   crashIdx, uploaded, crashMsgs, retval>>
    /\ UNCHANGED <<sigRest, wsVars, execVars, libVars>>

\* Mutant of DumpErrMetrics: the snapshot of the file, whatever the read found.
DumpErrMetricsNeverZero(file) == FileMetrics

\* Lines 117-121 of _dump_err: the metrics of the file, or the zeroed
\* snapshot when reading or parsing raised anything.
DumpErrMetrics(file) ==
    IF IsSome(ParseMetrics(file)) THEN Val(ParseMetrics(file)) ELSE ZeroMetrics

\* Lines 285-297: an except clause calls _dump_err(mq_state, settings, e,
\* measure) and returns.  Reading measure before line 227 bound it raises
\* UnboundLocalError; whatever the clause raises leaves through finally.
EntryDumpErr(sent, file) ==
    /\ TaskRuns
    /\ pc = "dump_err"
    /\ pc' = "shutdown"
    /\ IF measure = "unbound"
       THEN /\ after' = Raised("UnboundLocalError")
            /\ UNCHANGED <<reports, produceCalls, metricsRead, faults, cancelPending,
                           cancelAt>>
       ELSE /\ produceCalls' = produceCalls + 1
            /\ metricsRead' = Some(file)
            /\ \/ /\ NoCancel
                  /\ sent = "ok"
                  /\ reports' = Produce(reports, ErrReport(Val(currentExc).exc, DumpErrMetrics(file)))
                  /\ after' = Returned(Val(currentExc).ret)
                  /\ UNCHANGED faults
               \/ /\ NoCancel
                  /\ sent = "fail"
                  /\ after' = Raised("MQError")
                  /\ faults' = faults \cup {"produce_err"}
                  /\ UNCHANGED reports
               \/ /\ TakeCancel
                  /\ reports' = IF sent = "ok"
                                THEN Produce(reports, ErrReport(Val(currentExc).exc, DumpErrMetrics(file)))
                                ELSE reports
                  /\ after' = Raised("CancelledError")
                  /\ UNCHANGED faults
    /\ UNCHANGED <<py38, mq, measure, pollCount, modeStatus, runOutcome, crashes,
                   crashIdx, uploaded, crashMsgs, currentExc, retval, lastRead>>
    /\ UNCHANGED <<sigRest, wsVars, execVars, libVars>>

\* Lines 299-302: finally: await mq_app.shutdown(), then what was pending.
EntryShutdown(ok) ==
    /\ TaskRuns
    /\ pc = "shutdown"
    /\ pc' = "done"
    /\ \/ /\ NoCancel
          /\ ok
          /\ mq' = "shutdown"
          /\ retval' = Some(after)
          /\ UNCHANGED faults
       \/ /\ NoCancel
          /\ ~ok
          /\ retval' = Some(Raised("MQError"))
          /\ faults' = faults \cup {"shutdown"}
          /\ UNCHANGED mq
       \/ /\ TakeCancel
          /\ ok
          /\ retval' = Some(Raised("CancelledError"))
          /\ UNCHANGED <<mq, faults>>
    /\ UNCHANGED <<py38, measure, pollCount, modeStatus, runOutcome, crashes,
                   crashIdx, uploaded, crashMsgs, currentExc, after, reports,
                   produceCalls, metricsRead, lastRead>>
    /\ UNCHANGED <<sigRest, wsVars, execVars, libVars>>

EntryStartState ==
    /\ pc = "notstarted"
    /\ mq = "none"
    /\ measure = "unbound"
    /\ pollCount = 0
    /\ modeStatus = None
    /\ runOutcome = [kind |-> "none", exc |-> NoException, found |-> <<>>]
    /\ crashes = <<>>
    /\ crashIdx = 1
    /\ uploaded = {}
    /\ crashMsgs = <<>>
    /\ currentExc = None
    /\ after = NoResult
    /\ reports = <<>>
    /\ produceCalls = 0
    /\ metricsRead = None
    /\ lastRead = "none"
    /\ retval = None
    /\ cancelAt = "none"
    /\ faults = {}

\* What a read of the metrics file finds while signals are being delivered:
\* the file the runner wrote, or none on the success path.
SignalledMetricsFiles == {"ok", "missing"}
SignalledDumpErrFiles == {"ok"}

EntryNext ==
    \/ WInstall
    \/ WRestore
    \/ \E signum \in 1..NumSignums : Signal(signum)
    \/ HAcquire
    \/ HBody
    \/ EntryStart
    \/ \E how \in {"ok", "fail"} : EntryInit(how)
    \/ \E e \in {None} \cup {Some(x) : x \in PreRunErrors} : EntryCreateMgr(e)
    \/ \E read \in {"running", "waiting", "terminated", "api_error"} : EntryPoll(read)
    \/ EntryPollSleep
    \/ \E e \in {None} \cup {Some(x) : x \in PreRunErrors} : EntrySelect(e)
    \/ \E e \in {None} \cup RunRaises, found \in CrashLists : EntryRun(e, found)
    \/ \E file \in SignalledMetricsFiles : EntryMetrics(file)
    \/ \E e \in {None} \cup {Some(x) : x \in FinishErrors} : EntryFinish(e)
    \/ \E up_ok \in BOOLEAN, sent \in {"ok", "fail"} : EntrySendCrash(up_ok, sent)
    \/ \E sent \in {"ok", "fail"} : EntryDumpOk(sent)
    \/ \E sent \in {"ok", "fail"}, file \in SignalledDumpErrFiles : EntryDumpErr(sent, file)
    \/ \E ok \in BOOLEAN : EntryShutdown(ok)

\* The agent when no signal arrives, the metrics file being whatever each read
\* finds.
EntryQuietNext ==
    \/ WInstall
    \/ WRestore
    \/ EntryStart
    \/ \E how \in {"ok", "fail"} : EntryInit(how)
    \/ \E e \in {None} \cup {Some(x) : x \in PreRunErrors} : EntryCreateMgr(e)
    \/ \E read \in {"running", "waiting", "terminated", "api_error"} : EntryPoll(read)
    \/ EntryPollSleep
    \/ \E e \in {None} \cup {Some(x) : x \in PreRunErrors} : EntrySelect(e)
    \/ \E e \in {None} \cup RunRaises, found \in LongCrashLists : EntryRun(e, found)
    \/ \E file \in MetricsFiles : EntryMetrics(file)
    \/ \E e \in {None} \cup {Some(x) : x \in FinishErrors} : EntryFinish(e)
    \/ \E up_ok \in BOOLEAN, sent \in {"ok", "fail"} : EntrySendCrash(up_ok, sent)
    \/ \E sent \in {"ok", "fail"} : EntryDumpOk(sent)
    \/ \E sent \in {"ok", "fail"}, file \in MetricsFiles : EntryDumpErr(sent, file)
    \/ \E ok \in BOOLEAN : EntryShutdown(ok)

(***************************************************************************)
(* One ExecWSClient session used through its public methods                *)
(* (kubernetes/ws_client.py)                                               *)
(***************************************************************************)
TxtAB == <<"A", "B">>
TxtCD == <<"C", "D">>
TxtX == <<"X">>
TxtEF == <<"E", "F">>
\* The output the server can send while the command runs ...
OutputFrames ==
    {DataFrame(STDOUT_CHANNEL, TxtAB), DataFrame(STDOUT_CHANNEL, TxtCD),
     DataFrame(STDERR_CHANNEL, TxtX), DataFrame(STDERR_CHANNEL, TxtEF)}
OutputEvents == OutputFrames \cup {Event("OTHER")}
\* ... and what it can send around the end of the command.
StatusFrames ==
    {DataFrame(ERROR_CHANNEL, <<"S", "u", "c">>), DataFrame(ERROR_CHANNEL, <<"F", "1", "2">>),
     DataFrame(STDOUT_CHANNEL, TxtAB)}
StatusEvents == StatusFrames \cup ClosingEvents \cup {Event("OTHER")}
ConstructorArgs == [stdout : BOOLEAN, stderr : BOOLEAN, combine_output : BOOLEAN]

\* await client.update(timeout), the connection having ev next.
WsUpdateCall(timeout, ev) ==
    /\ (ev.type = "DATA" /\ Receives(ws, timeout, ev)) => Len(frames) < MaxFrames
    /\ ws' = WsUpdate(ws, timeout, ev)
    /\ frames' = IF ev.type = "DATA" /\ Receives(ws, timeout, ev)
                  THEN Append(frames, [ch |-> ev.ch, payload |-> ev.payload])
                  ELSE frames
    /\ UNCHANGED <<wsArgs, taken, rcReads, ncalls, closeCalls>>
    /\ UNCHANGED <<execVars, sigVars, entryVars, libVars>>

\* client.read_channel(channel, default="")
WsReadCall(channel) ==
    /\ ncalls < MaxCalls
    /\ ncalls' = ncalls + 1
    /\ taken' = [taken EXCEPT ![channel] = @ \o Val(PeekChannel(ws, channel, Some(<<>>)))]
    /\ ws' = PopChannel(ws, channel)
    /\ UNCHANGED <<wsArgs, frames, rcReads, closeCalls>>
    /\ UNCHANGED <<execVars, sigVars, entryVars, libVars>>

\* client.peek_channel(channel)
WsPeekCall(channel) ==
    /\ ncalls < MaxCalls
    /\ ncalls' = ncalls + 1
    /\ UNCHANGED <<ws, wsArgs, frames, taken, rcReads, closeCalls>>
    /\ UNCHANGED <<execVars, sigVars, entryVars, libVars>>

\* client.returncode
WsReturncodeCall ==
    /\ ncalls < MaxCalls
    /\ ncalls' = ncalls + 1
    /\ rcReads' = Append(rcReads, [open |-> IsOpen(ws),
                                    err |-> PeekChannel(ws, ERROR_CHANNEL, None),
                                    res |-> WsReturncode(ws)])
    /\ ws' = WsAfterReturncode(ws)
    /\ UNCHANGED <<wsArgs, frames, taken, closeCalls>>
    /\ UNCHANGED <<execVars, sigVars, entryVars, libVars>>

\* await client.close(), sock.close() ending as release says.
WsCloseCall(release) ==
    /\ ncalls < MaxCalls
    /\ ncalls' = ncalls + 1
    /\ closeCalls' = closeCalls + 1
    /\ ws' = WsClose(ws, release)
    /\ UNCHANGED <<wsArgs, frames, taken, rcReads>>
    /\ UNCHANGED <<execVars, sigVars, entryVars, libVars>>

\* The session while output arrives: update, read_stdout, read_stderr.
WsOutputNext ==
    \/ \E timeout \in {0, 5}, ev \in OutputEvents : WsUpdateCall(timeout, ev)
    \/ \E channel \in {STDOUT_CHANNEL, STDERR_CHANNEL} : WsReadCall(channel)

\* The session around its end: update with the timeout exec_command passes
\* (manager.py, line 159), the error channel, returncode, close.
WsEndNext ==
    \/ \E timeout \in {5}, ev \in StatusEvents : WsUpdateCall(timeout, ev)
    \/ WsReadCall(ERROR_CHANNEL)
    \/ WsPeekCall(ERROR_CHANNEL)
    \/ WsReturncodeCall
    \/ \E release \in {"ok", "OSError"} : WsCloseCall(release)

(***************************************************************************)
(* ExecWSClient.run_forever (kubernetes/ws_client.py)                      *)
(***************************************************************************)
\* "if timeout:": None and 0 take the else branch.
Truthy(timeout) == IsSome(timeout) /\ Val(timeout) # 0

\* update(timeout) with timeout an Option: line 92, "timeout <= 0", is
\* reached by an open client whose socket is not closed, and None <= 0 is a
\* TypeError.
UpdateOutcome(w, timeout, ev) ==
    IF IsOpen(w) /\ ev.type # "SOCK_CLOSED" /\ IsNone(timeout)
    THEN Raised("TypeError") ELSE Returned(0)
UpdateClient(w, timeout, ev) ==
    IF IsSome(timeout) THEN WsUpdate(w, Val(timeout), ev)
    ELSE IF IsOpen(w) /\ ev.type = "SOCK_CLOSED" THEN [w EXCEPT !.connected = FALSE]
    ELSE w

\* The loop condition of the branch run_forever took.
RfContinue ==
    IF Truthy(rfTimeout) THEN IsOpen(ws) /\ rfElapsed < Val(rfTimeout) ELSE IsOpen(ws)
\* The timeout handed to update: what is left of the deadline, or None.
RfUpdateTimeout == IF Truthy(rfTimeout) THEN Some(Val(rfTimeout) - rfElapsed) ELSE None

RfEvents == OutputEvents \cup ClosingEvents \cup {Event("TIMEOUT")}
RfTimeouts == {None} \cup {Some(t) : t \in 0..MaxDeadline}
RfInit == rfpc = "idle" /\ rfTimeout = None /\ rfElapsed = 0 /\ rfResult = NoResult

\* await client.run_forever(timeout): start = time.time()
RfCall(timeout) ==
    /\ rfpc = "idle"
    /\ rfpc' = "loop"
    /\ rfTimeout' = timeout
    /\ rfElapsed' = 0
    /\ UNCHANGED <<rfResult, wsVars, execVars, sigVars, entryVars, stVars, podVars, updVars, trVars, migVars>>

\* One round of the loop: the condition holds and update() is awaited, the
\* connection having ev next and dt time passing meanwhile.
RfUpdate(ev, dt) ==
    /\ rfpc = "loop"
    /\ RfContinue
    /\ LET timeout == RfUpdateTimeout
           received == IsSome(timeout) /\ ev.type = "DATA" /\ Receives(ws, Val(timeout), ev)
       IN  /\ received => Len(frames) < MaxFrames
           /\ IsSome(timeout) => (dt <= Val(timeout) /\ (ev.type = "TIMEOUT" => dt = Val(timeout)))
           /\ IsNone(timeout) => dt = 0
           /\ IF UpdateOutcome(ws, timeout, ev).kind = "raise"
              THEN /\ rfpc' = "ended"
                   /\ rfResult' = UpdateOutcome(ws, timeout, ev)
                   /\ UNCHANGED <<ws, frames, rfElapsed>>
              ELSE /\ ws' = UpdateClient(ws, timeout, ev)
                   /\ frames' = IF received
                                 THEN Append(frames, [ch |-> ev.ch, payload |-> ev.payload])
                                 ELSE frames
                   /\ rfElapsed' = rfElapsed + dt
                   /\ UNCHANGED <<rfpc, rfResult>>
    /\ UNCHANGED <<rfTimeout, wsArgs, taken, rcReads, ncalls, closeCalls>>
    /\ UNCHANGED <<execVars, sigVars, entryVars, stVars, podVars, updVars, trVars, migVars>>

\* The loop condition fails: run_forever returns None.
RfReturn ==
    /\ rfpc = "loop"
    /\ ~RfContinue
    /\ rfpc' = "ended"
    /\ rfResult' = Returned(0)
    /\ UNCHANGED <<rfTimeout, rfElapsed, wsVars, execVars, sigVars, entryVars, stVars, podVars, updVars, trVars, migVars>>

RfNext ==
    \/ \E timeout \in RfTimeouts : RfCall(timeout)
    \/ \E ev \in RfEvents, dt \in 0..MaxDeadline : RfUpdate(ev, dt)
    \/ RfReturn

(***************************************************************************)
(* ObjectStorage (storage/s3/storage.py, storage/s3/errors.py)             *)
(*                                                                         *)
(* Bytes are sequences of integers.  A directory is a function from file   *)
(* names to optional bytes.                                                *)
(***************************************************************************)
\* ---- gzip: a two-byte magic number followed by the run-length encoding
\* of the data; reading anything without the magic number fails.
GzipMagic == <<31, 139>>

RECURSIVE RunLength(_, _)
RunLength(b, v) == IF b # <<>> /\ Head(b) = v THEN 1 + RunLength(Tail(b), v) ELSE 0

RECURSIVE Deflate(_)
Deflate(b) ==
    IF b = <<>> THEN <<>>
    ELSE LET n == RunLength(b, Head(b))
         IN  <<Head(b), n>> \o Deflate(SubSeq(b, n + 1, Len(b)))

RECURSIVE Inflate(_)
Inflate(x) ==
    IF Len(x) < 2 THEN <<>>
    ELSE [i \in 1..x[2] |-> x[1]] \o Inflate(SubSeq(x, 3, Len(x)))

\* GzipFile(mode="wb") over the whole input
GzipWrite(b) == GzipMagic \o Deflate(b)
\* GzipFile(mode="rb") read to the end: None models BadGzipFile
GzipRead(x) ==
    IF Len(x) >= 2 /\ SubSeq(x, 1, 2) = GzipMagic /\ Len(x) % 2 = 0
    THEN Some(Inflate(SubSeq(x, 3, Len(x)))) ELSE None

\* ---- tar: per member a header (name, size) followed by the data, then an
\* end marker.
FileA == <<"a">>
FileB == <<"b">>
FileNames == {FileA, FileB}
\* the order in which os.listdir names the files
ListDir == <<FileA, FileB>>
EmptyDir == [n \in FileNames |-> None]
TarEnd == 0
NameCode(n) == IF n = FileA THEN 97 ELSE 98
CodeName(c) == IF c = 97 THEN FileA ELSE FileB

RECURSIVE TarMembers(_, _)
TarMembers(dir, names) ==
    IF names = <<>> THEN <<>>
    ELSE (IF IsSome(dir[Head(names)])
          THEN <<NameCode(Head(names)), Len(Val(dir[Head(names)]))>> \o Val(dir[Head(names)])
          ELSE <<>>) \o TarMembers(dir, Tail(names))

\* tarfile.open(mode="w:gz"), tar.add of every listed file
TarGzWrite(dir) == GzipWrite(TarMembers(dir, ListDir) \o <<TarEnd>>)

\* extractall into dir: None models tarfile.ReadError
RECURSIVE Extract(_, _)
Extract(x, dir) ==
    IF x = <<>> THEN None
    ELSE IF Head(x) = TarEnd THEN (IF Len(x) = 1 THEN Some(dir) ELSE None)
    ELSE IF Head(x) \notin {97, 98} \/ Len(x) < 2 \/ Len(x) < 2 + x[2] THEN None
    ELSE Extract(SubSeq(x, 3 + x[2], Len(x)),
                 [dir EXCEPT ![CodeName(x[1])] = Some(SubSeq(x, 3, 2 + x[2]))])

\* tarfile.open(mode="r:gz") and extractall(dir_save_to)
TarGzExtract(x, dir) ==
    IF IsNone(GzipRead(x)) THEN None ELSE Extract(Val(GzipRead(x)), dir)

\* ---- the S3 service behind self._client
Buckets == {"fuzzers", "data"}
KeyA == <<"p", "/", "a">>
KeyB == <<"p", "/", "b">>
Keys == {KeyA, KeyB}
\* the order in which the service lists keys
KeyOrder == <<KeyA, KeyB>>
Prefixes == {<<"p">>, <<"q">>}
Objects == Buckets \X Keys
\* The places the callers upload to; the other key is never written.
UploadTargets == {<<"data", KeyA>>, <<"fuzzers", KeyA>>}
\* What can go wrong between the client and the service.
Faults == {"none", "ClientError403", "EndpointConnectionError"}

HasPrefix(key, prefix) ==
    Len(prefix) <= Len(key) /\ SubSeq(key, 1, Len(prefix)) = prefix

\* os.path.basename
RECURSIVE Basename(_)
Basename(path) ==
    IF \E i \in 1..Len(path) : path[i] = "/"
    THEN Basename(SubSeq(path, (CHOOSE i \in 1..Len(path) : path[i] = "/") + 1, Len(path)))
    ELSE path

\* The outcome of a storage call: [kind, exc, data, tree, keys].
StReturned(data, tree, keys) ==
    [kind |-> "return", exc |-> "", data |-> data, tree |-> tree, keys |-> keys]
StRaised(exc) ==
    [kind |-> "raise", exc |-> exc, data |-> <<>>, tree |-> EmptyDir, keys |-> <<>>]

\* upload_fileobj / upload_file: the outcome, and the service afterwards
ClientPut(st, bucket, key, blob, fault) ==
    IF fault # "none" THEN StRaised(fault) ELSE StReturned(<<>>, EmptyDir, <<>>)
ClientPutStore(st, bucket, key, blob, fault) ==
    IF fault # "none" THEN st ELSE [st EXCEPT ![<<bucket, key>>] = Some(blob)]

\* download_fileobj / download_file / get_object: a missing key is a
\* ClientError whose HTTP status is 404
ClientGet(st, bucket, key, fault) ==
    IF fault # "none" THEN StRaised(fault)
    ELSE IF IsNone(st[<<bucket, key>>]) THEN StRaised("ClientError404")
    ELSE StReturned(Val(st[<<bucket, key>>]), EmptyDir, <<>>)

\* Mutant of MaybeNotFound: a 404 is passed on as it came.
MaybeNotFoundPassThrough(res) == res

\* errors.py, maybe_not_found
MaybeNotFound(res) ==
    IF res.kind = "raise" /\ res.exc = "ClientError404"
    THEN StRaised("ObjectNotFoundError") ELSE res

\* errors.py, maybe_unknown_error
MaybeUnknownError(res) ==
    IF res.kind = "raise"
       /\ res.exc \in {"ClientError404", "ClientError403", "EndpointConnectionError"}
    THEN StRaised("ObjectStorageError") ELSE res

\* except ObjectStorageError: the class and its subclasses
IsObjectStorageError(exc) ==
    exc \in {"ObjectStorageError", "ObjectNotFoundError", "UploadLimitError"}

\* ---- ObjectStorage methods: the outcome of each call
upload_bytes(st, source, bucket, key, fault) ==
    MaybeUnknownError(ClientPut(st, bucket, key, source, fault))
download_bytes(st, bucket, key, fault) ==
    MaybeUnknownError(MaybeNotFound(ClientGet(st, bucket, key, fault)))
upload_file(st, source, bucket, key, fault) ==
    MaybeUnknownError(ClientPut(st, bucket, key, source, fault))
download_file(st, bucket, key, fault) ==
    MaybeUnknownError(MaybeNotFound(ClientGet(st, bucket, key, fault)))
upload_file_gzipped(st, source, bucket, key, fault) ==
    MaybeUnknownError(ClientPut(st, bucket, key, GzipWrite(source), fault))

\* Mutant of download_file_gzipped: the object is saved as it is stored.
download_file_gzipped_raw(st, bucket, key, fault) ==
    MaybeUnknownError(MaybeNotFound(ClientGet(st, bucket, key, fault)))

download_file_gzipped(st, bucket, key, fault) ==
    LET obj == ClientGet(st, bucket, key, fault)
        res == IF obj.kind = "raise" THEN obj
               ELSE IF IsNone(GzipRead(obj.data)) THEN StRaised("BadGzipFile")
               ELSE StReturned(Val(GzipRead(obj.data)), EmptyDir, <<>>)
    IN  MaybeUnknownError(MaybeNotFound(res))
upload_archive(st, source_dir, bucket, key, fault) ==
    MaybeUnknownError(ClientPut(st, bucket, key, TarGzWrite(source_dir), fault))
download_archive(st, bucket, key, dir, fault) ==
    LET obj == ClientGet(st, bucket, key, fault)
        res == IF obj.kind = "raise" THEN obj
               ELSE IF IsNone(TarGzExtract(obj.data, dir)) THEN StRaised("ReadError")
               ELSE StReturned(<<>>, Val(TarGzExtract(obj.data, dir)), <<>>)
    IN  MaybeUnknownError(MaybeNotFound(res))

\* bucket_wrapper.objects.filter(Prefix=prefix): the keys listed, in order
RECURSIVE Listing(_, _, _, _)
Listing(st, bucket, prefix, keys) ==
    IF keys = <<>> THEN <<>>
    ELSE (IF IsSome(st[<<bucket, Head(keys)>>]) /\ HasPrefix(Head(keys), prefix)
          THEN <<Head(keys)>> ELSE <<>>) \o Listing(st, bucket, prefix, Tail(keys))

\* Mutant of ManyArchives: the key is collected outside the suppress block,
\* whether its download failed or not.
RECURSIVE ManyArchivesKeepsFailedKeys(_, _, _, _, _)
ManyArchivesKeepsFailedKeys(st, bucket, listed, acc, faultOf) ==
    IF listed = <<>> \/ acc.kind = "raise" THEN acc
    ELSE LET one == download_archive(st, bucket, Head(listed), acc.tree, faultOf[Head(listed)])
         IN  ManyArchivesKeepsFailedKeys(st, bucket, Tail(listed),
                 IF one.kind = "return"
                 THEN StReturned(<<>>, one.tree, Append(acc.keys, Head(listed)))
                 ELSE IF IsObjectStorageError(one.exc)
                 THEN StReturned(<<>>, acc.tree, Append(acc.keys, Head(listed)))
                 ELSE one,
                 faultOf)

\* The loop of download_many_archives over the listed keys: acc is the
\* outcome so far (the directory and the keys collected), faultOf[k] what goes
\* wrong when the object at key k is fetched.
RECURSIVE ManyArchives(_, _, _, _, _)
ManyArchives(st, bucket, listed, acc, faultOf) ==
    IF listed = <<>> \/ acc.kind = "raise" THEN acc
    ELSE LET one == download_archive(st, bucket, Head(listed), acc.tree, faultOf[Head(listed)])
         IN  ManyArchives(st, bucket, Tail(listed),
                 IF one.kind = "return"
                 THEN StReturned(<<>>, one.tree, Append(acc.keys, Head(listed)))
                 ELSE IF IsObjectStorageError(one.exc) THEN acc
                 ELSE one,
                 faultOf)
download_many_archives(st, bucket, prefix, faultOf) ==
    ManyArchives(st, bucket, Listing(st, bucket, prefix, KeyOrder),
                 StReturned(<<>>, EmptyDir, <<>>), faultOf)

\* The loop of download_many_files: each object is saved under its basename.
RECURSIVE ManyFiles(_, _, _, _, _)
ManyFiles(st, bucket, listed, acc, fault) ==
    IF listed = <<>> \/ acc.kind = "raise" THEN acc
    ELSE LET one == download_file(st, bucket, Head(listed), fault)
         IN  ManyFiles(st, bucket, Tail(listed),
                 IF one.kind = "return"
                 THEN StReturned(<<>>,
                                 [acc.tree EXCEPT ![Basename(Head(listed))] = Some(one.data)],
                                 Append(acc.keys, Head(listed)))
                 ELSE IF IsObjectStorageError(one.exc) THEN acc
                 ELSE one,
                 fault)
download_many_files(st, bucket, prefix, fault) ==
    ManyFiles(st, bucket, Listing(st, bucket, prefix, KeyOrder),
              StReturned(<<>>, EmptyDir, <<>>), fault)

\* ---- what the callers hand over
ByteInputs == {<<>>, <<0, 0>>, <<0, 1>>}
DirInputs ==
    {EmptyDir, [EmptyDir EXCEPT ![FileA] = Some(<<0, 0>>), ![FileB] = Some(<<>>)]}
NoUpload == [op |-> "none", data |-> <<>>, tree |-> EmptyDir]
NoCall ==
    [op |-> "none", bucket |-> "", key |-> <<>>, fault |-> "none",
     res |-> StReturned(<<>>, EmptyDir, <<>>)]
Call(op, bucket, key, fault, res) ==
    [op |-> op, bucket |-> bucket, key |-> key, fault |-> fault, res |-> res]

(***************************************************************************)
(* FileTransfer: the unmerged corpus in the data bucket (transfer.py)      *)
(***************************************************************************)
\* BucketData.unmerged_corpus_list: the bucket and the prefix all unmerged
\* corpus archives of the fuzzer revision share.
UnmergedCorpusBucket == "data"
UnmergedCorpusList == <<"p">>

\* What S3 may answer for one key: the faults of the service, and a 404 for an
\* object that was removed after it was listed.
FetchFaults == Faults \cup {"ClientError404"}
FaultMaps == [Keys -> Faults]
FetchFaultMaps == [Keys -> FetchFaults]
NoFaults == [k \in Keys |-> "none"]

\* What an unmerged corpus object may hold: an archive some agent uploaded, or
\* bytes that are no gzip stream.
CorruptArchive == <<9>>
CorpusBlobs == {TarGzWrite(d) : d \in DirInputs} \cup {CorruptArchive}
EmptyStore == [o \in Objects |-> None]
CorpusStores ==
    {[o \in Objects |-> IF o[1] = UnmergedCorpusBucket THEN f[o[2]] ELSE None] :
        f \in [Keys -> {None} \cup {Some(b) : b \in CorpusBlobs}]}
KeyLists == {<<>>} \cup {<<k>> : k \in Keys} \cup {<<j, k>> : j, k \in Keys}

\* storage.py, delete_object: head_object, then delete_object.  The outcome
\* and the service afterwards.
delete_object(st, bucket, key, fault) ==
    LET head == IF fault # "none" THEN StRaised(fault)
                ELSE IF IsNone(st[<<bucket, key>>]) THEN StRaised("ClientError404")
                ELSE StReturned(<<>>, EmptyDir, <<>>)
        res  == MaybeUnknownError(MaybeNotFound(head))
    IN  [res |-> res,
         store |-> IF res.kind = "return" THEN [st EXCEPT ![<<bucket, key>>] = None]
                   ELSE st]

\* Mutant of DeleteKeys: a key that is gone ends the loop like any other
\* storage error.
RECURSIVE DeleteKeysStopAtMissing(_, _, _)
DeleteKeysStopAtMissing(st, keys, faultOf) ==
    IF keys = <<>> THEN [res |-> StReturned(<<>>, EmptyDir, <<>>), store |-> st]
    ELSE LET one == delete_object(st, UnmergedCorpusBucket, Head(keys), faultOf[Head(keys)])
         IN  IF one.res.kind = "return"
             THEN DeleteKeysStopAtMissing(one.store, Tail(keys), faultOf)
             ELSE [res |-> one.res, store |-> st]

\* transfer.py, delete_unmerged_corpus: the loop over keys with the inner
\* delete_object, which swallows ObjectNotFoundError with a warning.
RECURSIVE DeleteKeys(_, _, _)
DeleteKeys(st, keys, faultOf) ==
    IF keys = <<>> THEN [res |-> StReturned(<<>>, EmptyDir, <<>>), store |-> st]
    ELSE LET one == delete_object(st, UnmergedCorpusBucket, Head(keys), faultOf[Head(keys)])
         IN  IF one.res.kind = "return" THEN DeleteKeys(one.store, Tail(keys), faultOf)
             ELSE IF one.res.exc = "ObjectNotFoundError" THEN DeleteKeys(st, Tail(keys), faultOf)
             ELSE [res |-> one.res, store |-> st]

\* transfer.py, delete_unmerged_corpus
delete_unmerged_corpus(st, keys, faultOf) ==
    LET done == DeleteKeys(st, keys, faultOf)
    IN  IF done.res.kind = "raise" /\ IsObjectStorageError(done.res.exc)
        THEN [res |-> StRaised("RemoteFileDeleteError"), store |-> done.store]
        ELSE done

\* transfer.py, download_unmerged_corpus
download_unmerged_corpus(st, faultOf) ==
    LET res == download_many_archives(st, UnmergedCorpusBucket, UnmergedCorpusList, faultOf)
    IN  IF res.kind = "raise" /\ IsObjectStorageError(res.exc)
        THEN StRaised("FileDownloadError") ELSE res

\* The last FileTransfer call: the keys and faults it was given, the service
\* before and after it, its outcome, and the last download that returned
\* (its keys, its faults and the service it read; None when a delete on
\* other keys or a failed download came after it).
Transfer(op, keys, faultOf, st, st2, res, downloaded) ==
    [op |-> op, keys |-> keys, faults |-> faultOf, before |-> st,
     after |-> st2, res |-> res, downloaded |-> downloaded]
NoTransfer ==
    Transfer("none", <<>>, NoFaults, EmptyStore, EmptyStore,
             StReturned(<<>>, EmptyDir, <<>>), None)
TrIdle == corpus = NoTransfer
TrInit ==
    /\ store \in CorpusStores
    /\ put = [o \in Objects |-> NoUpload]
    /\ last = NoCall
    /\ corpus = NoTransfer

TrDownloadUnmergedCorpus(faultOf) ==
    LET res == download_unmerged_corpus(store, faultOf)
    IN  /\ corpus' = Transfer("download_unmerged_corpus", <<>>, faultOf, store, store, res,
                              IF res.kind = "return"
                              THEN Some([keys |-> res.keys, faults |-> faultOf,
                                         store |-> store])
                              ELSE None)
        /\ UNCHANGED <<store, put, last, wsVars, execVars, sigVars, entryVars, rfVars,
                       podVars, updVars, migVars>>

\* delete_unmerged_corpus on keys of the caller's choosing
TrDeleteUnmergedCorpus(keys, faultOf) ==
    LET done == delete_unmerged_corpus(store, keys, faultOf)
    IN  /\ store' = done.store
        /\ corpus' = Transfer("delete_unmerged_corpus", keys, faultOf, store, done.store,
                              done.res, None)
        /\ UNCHANGED <<put, last, wsVars, execVars, sigVars, entryVars, rfVars,
                       podVars, updVars, migVars>>

\* delete_unmerged_corpus on the keys download_unmerged_corpus returned
TrDeleteDownloaded(faultOf) ==
    /\ IsSome(corpus.downloaded)
    /\ LET keys == Val(corpus.downloaded).keys
           done == delete_unmerged_corpus(store, keys, faultOf)
       IN  /\ store' = done.store
           /\ corpus' = Transfer("delete_downloaded", keys, faultOf, store,
                                 done.store, done.res, corpus.downloaded)
    /\ UNCHANGED <<put, last, wsVars, execVars, sigVars, entryVars, rfVars,
                   podVars, updVars, migVars>>

\* Somebody else removes an object ("Deleted externally?").
TrDeletedExternally(key) ==
    /\ IsSome(store[<<UnmergedCorpusBucket, key>>])
    /\ store' = [store EXCEPT ![<<UnmergedCorpusBucket, key>>] = None]
    /\ UNCHANGED <<corpus, put, last, wsVars, execVars, sigVars, entryVars, rfVars,
                   podVars, updVars, migVars>>

TrNext ==
    \/ \E faultOf \in FetchFaultMaps : TrDownloadUnmergedCorpus(faultOf)
    \/ \E keys \in KeyLists, faultOf \in FaultMaps : TrDeleteUnmergedCorpus(keys, faultOf)
    \/ \E faultOf \in FaultMaps : TrDeleteDownloaded(faultOf)
    \/ \E key \in Keys : TrDeletedExternally(key)

(***************************************************************************)
(* The 0.1.X to 0.2.X storage migration (local/migration/0.1.X-0.2.X)      *)
(***************************************************************************)
FuzzerIds == {"f1", "f2"}
FuzzerOrder == <<"f1", "f2">>
Revisions == {"r1", "r2"}
\* Old layout in the data bucket: <fuzzer>/corpus.tar.gz and the objects
\* under <fuzzer>/corpus_tmp.
MergedCorpus == "corpus.tar.gz"
UnmergedFile == "corpus_tmp/a.tar.gz"
OldKeys == FuzzerIds \X {MergedCorpus, UnmergedFile}
NewKeys == FuzzerIds \X Revisions \X {MergedCorpus, UnmergedFile}
\* The key an old object gets in revision rev: <fuzzer>/<rev>/corpus/corpus.tar.gz
\* and <fuzzer>/<rev>/corpus/tmp/...
NewKeyOf(src, rev) == <<src[1], rev, src[2]>>

\* all_fuzzers_with_revisions: the fuzzers that have a merged corpus in the
\* data bucket, each with the revisions found for it in the fuzzers bucket
\* (a defaultdict: a fuzzer without revisions has no entry).
all_fuzzers_with_revisions(old, revs) ==
    {fr \in FuzzerIds \X Revisions :
        /\ <<fr[1], MergedCorpus>> \in old
        /\ fr[2] \in revs[fr[1]]}

\* The copies one migrate_files(fuzzer_id, fuzzer_rev) call attempts:
\* the merged corpus, then every object listed under <fuzzer>/corpus_tmp.
CopiesOf(old, fuzzer_id) ==
    {<<fuzzer_id, MergedCorpus>>}
        \cup {k \in old : k[1] = fuzzer_id /\ k[2] = UnmergedFile}
\* The deletions one delete_old_files(fuzzer_id) call attempts.
DeletionsOf(old, fuzzer_id) ==
    {<<fuzzer_id, MergedCorpus>>}
        \cup {k \in old : k[1] = fuzzer_id /\ k[2] = UnmergedFile}

MigNotStarted ==
    [pc |-> "start", old |-> {}, new |-> {}, revs |-> [f \in FuzzerIds |-> {}],
     todo |-> {}, todel |-> {}, deleted |-> {}, failed |-> {}]
MigIdle == mig = MigNotStarted
MigInit ==
    \E old \in SUBSET OldKeys, revs \in [FuzzerIds -> SUBSET Revisions] :
        mig = [MigNotStarted EXCEPT !.old = old, !.revs = revs]

\* main, up to the first loop: fuzzers = s3_helper.all_fuzzers_with_revisions()
MigAllFuzzers ==
    /\ mig.pc = "start"
    /\ LET fuzzers == all_fuzzers_with_revisions(mig.old, mig.revs)
       IN  mig' = [mig EXCEPT !.pc = "migrate", !.todo = fuzzers,
                              !.todel = {fr[1] : fr \in fuzzers}]
    /\ UNCHANGED <<wsVars, execVars, sigVars, entryVars, rfVars, stVars, podVars,
                   updVars, trVars>>

\* The first fuzzer of the dict that still has a revision to migrate.
IsFirstOf(fuzzer_id, fs) ==
    \E i \in 1..Len(FuzzerOrder) :
        /\ FuzzerOrder[i] = fuzzer_id
        /\ \A j \in 1..(i - 1) : FuzzerOrder[j] \notin fs

\* One round of main's first loop: migrate_files(fuzzer, revision).  The
\* copies in failing raise ClientError, which _copy_object prints.
MigMigrateFiles(fuzzer_id, fuzzer_rev, failing) ==
    /\ mig.pc = "migrate"
    /\ <<fuzzer_id, fuzzer_rev>> \in mig.todo
    /\ IsFirstOf(fuzzer_id, {fr[1] : fr \in mig.todo})
    /\ failing \subseteq CopiesOf(mig.old, fuzzer_id)
    /\ LET copies == CopiesOf(mig.old, fuzzer_id)
           copied == {src \in copies : src \in mig.old /\ src \notin failing}
           rest   == mig.todo \ {<<fuzzer_id, fuzzer_rev>>}
       IN  mig' = [mig EXCEPT
                     !.new = @ \cup {NewKeyOf(src, fuzzer_rev) : src \in copied},
                     !.failed = @ \cup {<<src, fuzzer_rev>> : src \in copies \ copied},
                     !.todo = rest,
                     !.pc = IF rest = {} THEN "delete" ELSE "migrate"]
    /\ UNCHANGED <<wsVars, execVars, sigVars, entryVars, rfVars, stVars, podVars,
                   updVars, trVars>>

\* One round of main's second loop: delete_old_files(fuzzer).  The deletions
\* in failing raise ClientError, which _delete_object prints.
MigDeleteOldFiles(fuzzer_id, failing) ==
    /\ mig.pc = "delete"
    /\ fuzzer_id \in mig.todel
    /\ IsFirstOf(fuzzer_id, mig.todel)
    /\ failing \subseteq DeletionsOf(mig.old, fuzzer_id)
    /\ LET gone == (DeletionsOf(mig.old, fuzzer_id) \cap mig.old) \ failing
           rest == mig.todel \ {fuzzer_id}
       IN  mig' = [mig EXCEPT
                     !.old = @ \ gone,
                     !.deleted = @ \cup gone,
                     !.todel = rest,
                     !.pc = IF rest = {} THEN "done" ELSE "delete"]
    /\ UNCHANGED <<wsVars, execVars, sigVars, entryVars, rfVars, stVars, podVars,
                   updVars, trVars>>

MigNext ==
    \/ MigAllFuzzers
    \/ \E f \in FuzzerIds, r \in Revisions, failing \in SUBSET OldKeys :
          MigMigrateFiles(f, r, failing)
    \/ \E f \in FuzzerIds, failing \in SUBSET OldKeys : MigDeleteOldFiles(f, failing)

(***************************************************************************)
(* ExecWSClient.update seen call by call (kubernetes/ws_client.py)         *)
(***************************************************************************)
\* Timeouts a caller passes: negative, zero (a deadline that has passed) and
\* the 5 seconds of exec_command.
UpdateTimeouts == {-1, 0, 5}
UpdInit == lastUpdate = None

\* Lines 85-123: await client.update(timeout), the connection having ev
\* next; receives is the number of sock.receive() calls the call makes.
UpdCall(timeout, ev) ==
    /\ (ev.type = "DATA" /\ Receives(ws, timeout, ev)) => Len(frames) < MaxFrames
    /\ ws' = WsUpdate(ws, timeout, ev)
    /\ frames' = IF ev.type = "DATA" /\ Receives(ws, timeout, ev)
                  THEN Append(frames, [ch |-> ev.ch, payload |-> ev.payload])
                  ELSE frames
    /\ lastUpdate' = Some([timeout |-> timeout,
                           before |-> ws,
                           after |-> WsUpdate(ws, timeout, ev),
                           receives |-> IF Receives(ws, timeout, ev) THEN 1 ELSE 0])
    /\ UNCHANGED <<wsArgs, taken, rcReads, ncalls, closeCalls>>
    /\ UNCHANGED <<execVars, sigVars, entryVars, rfVars, stVars, podVars, trVars, migVars>>

(***************************************************************************)
(* UserContainerManager and the containers of its pod                      *)
(* (kubernetes/manager.py)                                                 *)
(***************************************************************************)
ContainerNames == {"agent", "sandbox", "monitor"}
Lifecycle == <<"waiting", "running", "terminated">>
PodContainer(name, state) == [name |-> name, state |-> state]
NoStatus == PodContainer("", "")
PodReturned(st) == [kind |-> "return", exc |-> "", value |-> st]
PodRaised(e) == [kind |-> "raise", exc |-> e, value |-> NoStatus]
NoRead == [kind |-> "none", exc |-> "", value |-> NoStatus]

\* Lines 232-237 of read_fuzzer_container: the for loop over the statuses
\* from index i on, and the raise that follows it.
RECURSIVE ReadFrom(_, _, _)
ReadFrom(statuses, i, user) ==
    IF i > Len(statuses) THEN PodRaised("ApiException")
    ELSE IF statuses[i].name # user THEN PodReturned(statuses[i])
    ELSE ReadFrom(statuses, i + 1, user)

\* Lines 222-237: read_fuzzer_container on a pod with these statuses.
ReadFuzzerContainer(statuses, user) == ReadFrom(statuses, 1, user)

\* Pods of one to three containers with different names, in any order.
PodNameLists ==
    {l \in UNION {[1..n -> ContainerNames] : n \in 1..3} :
        \A i, j \in DOMAIN l : i # j => l[i] # l[j]}
NamesOf(statuses) == {statuses[i].name : i \in DOMAIN statuses}

PodInit ==
    /\ \E l \in PodNameLists :
          cont_statuses = [i \in DOMAIN l |-> PodContainer(l[i], Lifecycle[1])]
    /\ user_container \in NamesOf(cont_statuses)
    /\ fuzzerRead = NoRead
    /\ execContainer = None
    /\ logContainer = None

\* Where the manager is not under study: the agent and its sandbox.
PodIdle ==
    /\ cont_statuses = <<PodContainer("agent", Lifecycle[1]),
                         PodContainer("sandbox", Lifecycle[1])>>
    /\ user_container = "sandbox"
    /\ fuzzerRead = NoRead
    /\ execContainer = None
    /\ logContainer = None

\* The kubelet moves one container on in its lifecycle.
PodContainerStep(i) ==
    /\ i \in DOMAIN cont_statuses
    /\ \E k \in 1..(Len(Lifecycle) - 1) :
          /\ cont_statuses[i].state = Lifecycle[k]
          /\ cont_statuses' = [cont_statuses EXCEPT ![i].state = Lifecycle[k + 1]]
    /\ UNCHANGED <<user_container, fuzzerRead, execContainer, logContainer>>
    /\ UNCHANGED <<wsVars, execVars, sigVars, entryVars, rfVars, stVars, updVars, trVars, migVars>>

\* Lines 222-237: await manager.read_fuzzer_container().
PodReadFuzzerContainer ==
    /\ fuzzerRead' = ReadFuzzerContainer(cont_statuses, user_container)
    /\ UNCHANGED <<cont_statuses, user_container, execContainer, logContainer>>
    /\ UNCHANGED <<wsVars, execVars, sigVars, entryVars, rfVars, stVars, updVars, trVars, migVars>>

\* Lines 141-152 of exec_command: the exec request and its container= argument.
PodExecCommand ==
    /\ execContainer' = Some(user_container)
    /\ UNCHANGED <<cont_statuses, user_container, fuzzerRead, logContainer>>
    /\ UNCHANGED <<wsVars, execVars, sigVars, entryVars, rfVars, stVars, updVars, trVars, migVars>>

\* Lines 239-254 of read_monitor_output: the log request and its container=
\* argument.
PodReadMonitorOutput ==
    /\ logContainer' = Some(user_container)
    /\ UNCHANGED <<cont_statuses, user_container, fuzzerRead, execContainer>>
    /\ UNCHANGED <<wsVars, execVars, sigVars, entryVars, rfVars, stVars, updVars, trVars, migVars>>

PodNext ==
    \/ \E i \in 1..3 : PodContainerStep(i)
    \/ PodReadFuzzerContainer
    \/ PodExecCommand
    \/ PodReadMonitorOutput

StInit ==
    /\ store = [o \in Objects |-> None]
    /\ put = [o \in Objects |-> NoUpload]
    /\ last = NoCall
LibInit == RfInit /\ StInit /\ PodIdle /\ UpdInit /\ TrIdle /\ MigIdle

StUploadBytes(source, bucket, key, fault) ==
    LET res == upload_bytes(store, source, bucket, key, fault)
    IN  /\ store' = ClientPutStore(store, bucket, key, source, fault)
        /\ put' = IF res.kind = "return"
                  THEN [put EXCEPT ![<<bucket, key>>] =
                            [op |-> "upload_bytes", data |-> source, tree |-> EmptyDir]]
                  ELSE put
        /\ last' = Call("upload_bytes", bucket, key, fault, res)
        /\ UNCHANGED <<wsVars, execVars, sigVars, entryVars, rfVars, podVars, updVars, trVars, migVars>>

StUploadFile(source, bucket, key, fault) ==
    LET res == upload_file(store, source, bucket, key, fault)
    IN  /\ store' = ClientPutStore(store, bucket, key, source, fault)
        /\ put' = IF res.kind = "return"
                  THEN [put EXCEPT ![<<bucket, key>>] =
                            [op |-> "upload_file", data |-> source, tree |-> EmptyDir]]
                  ELSE put
        /\ last' = Call("upload_file", bucket, key, fault, res)
        /\ UNCHANGED <<wsVars, execVars, sigVars, entryVars, rfVars, podVars, updVars, trVars, migVars>>

StUploadFileGzipped(source, bucket, key, fault) ==
    LET res == upload_file_gzipped(store, source, bucket, key, fault)
    IN  /\ store' = ClientPutStore(store, bucket, key, GzipWrite(source), fault)
        /\ put' = IF res.kind = "return"
                  THEN [put EXCEPT ![<<bucket, key>>] =
                            [op |-> "upload_file_gzipped", data |-> source, tree |-> EmptyDir]]
                  ELSE put
        /\ last' = Call("upload_file_gzipped", bucket, key, fault, res)
        /\ UNCHANGED <<wsVars, execVars, sigVars, entryVars, rfVars, podVars, updVars, trVars, migVars>>

StUploadArchive(source_dir, bucket, key, fault) ==
    LET res == upload_archive(store, source_dir, bucket, key, fault)
    IN  /\ store' = ClientPutStore(store, bucket, key, TarGzWrite(source_dir), fault)
        /\ put' = IF res.kind = "return"
                  THEN [put EXCEPT ![<<bucket, key>>] =
                            [op |-> "upload_archive", data |-> <<>>, tree |-> source_dir]]
                  ELSE put
        /\ last' = Call("upload_archive", bucket, key, fault, res)
        /\ UNCHANGED <<wsVars, execVars, sigVars, entryVars, rfVars, podVars, updVars, trVars, migVars>>

StDownloadBytes(bucket, key, fault) ==
    /\ last' = Call("download_bytes", bucket, key, fault,
                    download_bytes(store, bucket, key, fault))
    /\ UNCHANGED <<store, put, wsVars, execVars, sigVars, entryVars, rfVars, podVars, updVars, trVars, migVars>>

StDownloadFile(bucket, key, fault) ==
    /\ last' = Call("download_file", bucket, key, fault,
                    download_file(store, bucket, key, fault))
    /\ UNCHANGED <<store, put, wsVars, execVars, sigVars, entryVars, rfVars, podVars, updVars, trVars, migVars>>

StDownloadFileGzipped(bucket, key, fault) ==
    /\ last' = Call("download_file_gzipped", bucket, key, fault,
                    download_file_gzipped(store, bucket, key, fault))
    /\ UNCHANGED <<store, put, wsVars, execVars, sigVars, entryVars, rfVars, podVars, updVars, trVars, migVars>>

\* download_archive into a directory that is empty
StDownloadArchive(bucket, key, fault) ==
    /\ last' = Call("download_archive", bucket, key, fault,
                    download_archive(store, bucket, key, EmptyDir, fault))
    /\ UNCHANGED <<store, put, wsVars, execVars, sigVars, entryVars, rfVars, podVars, updVars, trVars, migVars>>

StDownloadManyArchives(bucket, prefix, fault) ==
    /\ last' = Call("download_many_archives", bucket, prefix, fault,
                    download_many_archives(store, bucket, prefix, [k \in Keys |-> fault]))
    /\ UNCHANGED <<store, put, wsVars, execVars, sigVars, entryVars, rfVars, podVars, updVars, trVars, migVars>>

StDownloadManyFiles(bucket, prefix, fault) ==
    /\ last' = Call("download_many_files", bucket, prefix, fault,
                    download_many_files(store, bucket, prefix, fault))
    /\ UNCHANGED <<store, put, wsVars, execVars, sigVars, entryVars, rfVars, podVars, updVars, trVars, migVars>>

StNext ==
    \/ \E b \in ByteInputs, o \in UploadTargets : StUploadBytes(b, o[1], o[2], "none")
    \/ \E b \in ByteInputs, o \in UploadTargets : StUploadFile(b, o[1], o[2], "none")
    \/ \E b \in ByteInputs, o \in UploadTargets, f \in {"none", "ClientError403"} :
          StUploadFileGzipped(b, o[1], o[2], f)
    \/ \E d \in DirInputs, o \in UploadTargets : StUploadArchive(d, o[1], o[2], "none")
    \/ \E o \in Objects, f \in Faults : StDownloadBytes(o[1], o[2], f)
    \/ \E o \in Objects, f \in Faults : StDownloadFile(o[1], o[2], f)
    \/ \E o \in Objects, f \in Faults : StDownloadFileGzipped(o[1], o[2], f)
    \/ \E o \in Objects, f \in Faults : StDownloadArchive(o[1], o[2], f)
    \/ \E bucket \in Buckets, prefix \in Prefixes, f \in {"none", "ClientError403"} :
          StDownloadManyArchives(bucket, prefix, f)
    \/ \E bucket \in Buckets, prefix \in Prefixes, f \in {"none", "ClientError403"} :
          StDownloadManyFiles(bucket, prefix, f)

(***************************************************************************)
(* Specifications                                                          *)
(***************************************************************************)
\* exec_command over one ExecWSClient session.
InitExec == ExecInit /\ SigInit /\ EntryStartState /\ py38 = TRUE /\ LibInit
SpecExec == InitExec /\ [][ExecNext]_vars

\* One ExecWSClient session, constructed with any arguments.
InitWs ==
    /\ wsArgs \in ConstructorArgs
    /\ ws = WsNew(wsArgs.stdout, wsArgs.stderr, wsArgs.combine_output)
    /\ ClientInit
    /\ ExecLocalsInit
    /\ SigInit
    /\ EntryStartState
    /\ py38 = TRUE
    /\ LibInit
SpecWsOutput == InitWs /\ [][WsOutputNext]_vars
SpecWsEnd == InitWs /\ [][WsEndNext]_vars

\* update calls with any timeout on the session exec_command opens, and
\* reads of its returncode.
UpdNext ==
    \/ \E timeout \in UpdateTimeouts, ev \in StatusEvents : UpdCall(timeout, ev)
    \/ WsReturncodeCall
SpecWsUpdate == InitExec /\ [][UpdNext]_vars

\* run_forever on a fresh ExecWSClient session.
SpecRunForever == InitWs /\ [][RfNext]_vars

\* ObjectStorage over an initially empty service.
SpecStorage == InitExec /\ [][StNext]_vars

\* FileTransfer's unmerged corpus calls over a data bucket that holds any
\* objects under the two corpus keys.
InitCorpus ==
    ExecInit /\ SigInit /\ EntryStartState /\ py38 = TRUE /\ RfInit /\ PodIdle /\ UpdInit
    /\ TrInit /\ MigIdle
SpecCorpus == InitCorpus /\ [][TrNext]_vars

\* migrate.py's main over any old-layout data bucket and any revisions.
InitMigrate ==
    ExecInit /\ SigInit /\ EntryStartState /\ py38 = TRUE /\ RfInit /\ StInit /\ PodIdle
    /\ UpdInit /\ TrIdle /\ MigInit
SpecMigrate == InitMigrate /\ [][MigNext]_vars

InitPod ==
    ExecInit /\ SigInit /\ EntryStartState /\ py38 = TRUE /\ RfInit /\ StInit /\ PodInit
    /\ UpdInit /\ TrIdle /\ MigIdle
SpecPod == InitPod /\ [][PodNext]_vars

\* agent_entry_inner under the signal_handler wrapper, on either side of the
\* Python 3.8 change of CancelledError's base class (setup.py asks for >= 3.7).
InitEntry == SigInit /\ EntryStartState /\ py38 \in BOOLEAN /\ ExecInit /\ LibInit
SpecEntry == InitEntry /\ [][EntryNext]_vars
SpecEntryQuiet == InitEntry /\ [][EntryQuietNext]_vars


(***************************************************************************)
(* Claims about exec_command (checked under SpecExec)                      *)
(***************************************************************************)
AmbiguousCodes == {102, 137, 143}
ExecDone == xpc = "done"
RunnerExit(code) == IsSome(runner_exitcode) /\ Val(runner_exitcode) = code
TerminatedRead == IsSome(cont_info) /\ Val(cont_info).state = "terminated"

\* C4: with a runner exit code of 102, 137 or 143 nothing is classified
\* before the container status has been read, and for a terminated container
\* exec_command raises TmpfsLimitExceeded on exit code 101, FuzzerAbortedError
\* on 102, and RamLimitExceeded on any other exit code whose reason is
\* "oomkilled" in any letter case.
ThmC4_AmbiguousExitReadsContainer ==
    (\E c \in AmbiguousCodes : RunnerExit(c)) =>
        /\ statusReads = 0 => xresult = NoResult /\ ~ExecDone
        /\ ExecDone => statusReads = 1
        /\ (ExecDone /\ TerminatedRead) =>
            LET st == Val(cont_info)
            IN  /\ st.exit_code = 101 => xresult = Raised("TmpfsLimitExceeded")
                /\ st.exit_code = 102 => xresult = Raised("FuzzerAbortedError")
                /\ (st.exit_code \notin {101, 102} /\ IsSome(st.reason)
                    /\ Lower(Val(st.reason)) = OomKilled)
                        => xresult = Raised("RamLimitExceeded")

WitC4_UpperCaseOomKilled ==
    /\ ExecDone
    /\ RunnerExit(137)
    /\ TerminatedRead
    /\ Val(cont_info).exit_code = 137
    /\ Val(cont_info).reason = Some(<<"O", "O", "M", "K", "I", "L", "L", "E", "D">>)
    /\ xresult = Raised("RamLimitExceeded")

\* C5: with a runner exit code of 101 exec_command raises TimeLimitExceeded
\* and has not read the container status.
ThmC5_TimeLimitWithoutContainerRead ==
    RunnerExit(101) =>
        /\ ExecDone
        /\ xresult = Raised("TimeLimitExceeded")
        /\ statusReads = 0
        /\ IsNone(cont_info)

WitC5_TimeLimit == RunnerExit(101) /\ ExecDone /\ nframes >= 1

\* C6 (as claimed): with a runner exit code of 0 exec_command returns the
\* decimal integer spelled by the concatenation of all stdout frames received
\* before the session closed, and raises InternalError when that text is no
\* decimal integer.
CexC6_ReturnsIntegerOfAllStdout ==
    (ExecDone /\ RunnerExit(0)) =>
        xresult = IF IsSome(ParseInt(rxStdout))
                  THEN Returned(Val(ParseInt(rxStdout)))
                  ELSE Raised("InternalError")

\* C7 (as claimed): exec_command ends by returning an integer or by raising
\* one of the five errors of its contract.
ContractErrors ==
    {"TimeLimitExceeded", "TmpfsLimitExceeded", "RamLimitExceeded", "FuzzerAbortedError",
     "InternalError"}
CexC7_OnlyContractErrorsEscape ==
    ExecDone => xresult.kind = "return" \/ xresult.exc \in ContractErrors


(***************************************************************************)
(* Claims about agent_entry_inner and signal_handler (under SpecEntry)     *)
(***************************************************************************)
EntryDone == pc = "done"
RunReturned == runOutcome.kind = "return"
RunRaisedAgentError == runOutcome.kind = "raise" /\ runOutcome.exc.agent
RunRaisedOther == runOutcome.kind = "raise" /\ ~runOutcome.exc.agent
\* Nothing after run() failed and no cancellation was raised anywhere.
Undisturbed == faults = {} /\ cancelAt = "none"
\* Positions of the awaits that precede agent_mode.run().
PreRunBody == {"init_mq", "init_start", "create_mgr", "poll", "poll_sleep"}
PreRun == PreRunBody \cup {"notstarted"}
Returns(v) == retval = Some(Returned(v))
AbortedStatus == [code |-> E_FUZZER_ABORTED, message |-> "Fuzzer aborted", details |-> None]
GenericStatus == [code |-> E_INTERNAL_ERROR, message |-> "Internal error", details |-> None]

CexC2_CancelledRunReportsAborted ==
    (EntryDone /\ cancelAt = "run" /\ faults = {}) =>
        /\ modeStatus = Some(AbortedStatus)
        /\ Len(crashMsgs) = Len(crashes)
        /\ Len(reports) = 1
        /\ reports[1].status = AbortedStatus
        /\ Returns(0)

\* C3 (as claimed): exit code 0 for a run that completes, 2 for a run ended by
\* an AgentError that was reported, 3 for a run ended by an unclassified error
\* that was reported, 1 for a failed initialization, 0 for a cancellation
\* before the run starts.
CexC3_ExitCodeFollowsRunOutcome ==
    EntryDone =>
        /\ "init" \in faults => Returns(1)
        /\ (RunReturned /\ Undisturbed) => Returns(0)
        /\ (RunRaisedAgentError /\ Undisturbed) => Returns(2)
        /\ (RunRaisedOther /\ Undisturbed) => Returns(3)
        /\ (cancelAt \in PreRunBody /\ "shutdown" \notin faults) => Returns(0)

\* C3 (amended): 1 for a failed initialization; 0 when run() returned or
\* raised and the report went out through _dump_ok; 2 (3) when an AgentError
\* (another exception) raised after TimeMeasure was bound and outside run()
\* reached an except clause whose _dump_err went through; 0 for a
\* cancellation raised inside the function before the run starts.
ThmC3_ExitCodeFollowsReportingPath ==
    EntryDone =>
        /\ "init" \in faults => Returns(1)
        /\ ((RunReturned \/ RunRaisedAgentError \/ RunRaisedOther) /\ Undisturbed)
            => Returns(0)
        /\ (IsSome(currentExc) /\ measure # "unbound" /\ cancelAt = "none"
            /\ faults \cap {"produce_err", "shutdown"} = {})
            => Returns(IF Val(currentExc).raised.agent THEN 2 ELSE 3)
        /\ (cancelAt \in PreRunBody /\ "shutdown" \notin faults) => Returns(0)

WitC3_RunErrorExitsZero ==
    EntryDone /\ RunRaisedAgentError /\ Undisturbed /\ Returns(0) /\ Len(reports) = 1

\* C8: when run() raises an AgentError e, agent_mode.status holds e's code,
\* message and details from then on, every report built from it carries
\* them, and when the following steps go through that report is the one
\* emitted.
ThmC8_DomainErrorReportedUnchanged ==
    RunRaisedAgentError =>
        LET e == runOutcome.exc
            same(st) == st.code = e.code /\ st.message = e.message /\ st.details = e.details
        IN  /\ IsSome(modeStatus) /\ same(Val(modeStatus))
            /\ \A i \in 1..Len(reports) : reports[i].schema = "ok" => same(reports[i].status)
            /\ (EntryDone /\ Undisturbed) => Len(reports) = 1 /\ reports[1].schema = "ok"

WitC8_LaunchErrorReported ==
    /\ EntryDone
    /\ runOutcome.kind = "raise"
    /\ runOutcome.exc.cls = "FuzzerLaunchError"
    /\ Len(reports) = 1
    /\ reports[1].status =
         [code |-> E_FUZZER_LAUNCH_ERROR, message |-> "Failed to launch",
          details |-> Some("exit code 1")]

IgnoredInvocation == hstack # <<>> /\ Top.hpc = "locked" /\ catched /\ hstack' = Pop
WrapperEnded == wpc = "done"
ThmC11_HandlersRestored ==
    /\ WrapperEnded => handlers = PriorHandlers
    /\ wpc = "await" => \A n \in 1..NumSignums : handlers[n] = NewHandler

WitC11_RestoredAfterException ==
    /\ WrapperEnded
    /\ retval = Some(Raised("CancelledError"))
    /\ handlers = PriorHandlers
    /\ oldHandlers = PriorHandlers

\* C12 (as claimed): on every exit of agent_entry_inner on which mq_init had
\* returned the messaging application, mq_app.shutdown() has completed by the
\* time the function returns or raises (a shutdown() that itself fails or is
\* cancelled apart).
CexC12_MessagingShutDownOnEveryExit ==
    (EntryDone /\ mq # "none" /\ "shutdown" \notin faults /\ cancelAt # "shutdown")
        => mq = "shutdown"

\* C13: every crash message emitted for a crash whose inline input is longer
\* than crash_max_size has no input and an input_id that no other message
\* and not the record as found carries, and content storage holds the
\* decoded input under that id; every other crash message is the record as
\* found; nothing else is in content storage.
BigFound(o) == IsSome(o.input) /\ Len(Val(o.input)) > CrashMaxSize
ThmC13_OversizedInputOffloaded ==
    /\ \A i \in 1..Len(crashMsgs) :
        LET o == runOutcome.found[i]
            m == crashMsgs[i]
        IN  IF BigFound(o)
            THEN /\ m.input = None
                 /\ IsSome(m.input_id)
                 /\ m.input_id # o.input_id
                 /\ \A j \in 1..Len(crashMsgs) : j # i => crashMsgs[j].input_id # m.input_id
                 /\ IsSome(B64Decode(Val(o.input)))
                 /\ [id |-> Val(m.input_id), bytes |-> B64Decode(Val(o.input))] \in uploaded
            ELSE m = o
    /\ \A u \in uploaded :
        \E i \in 1..Len(runOutcome.found) :
            /\ i <= crashIdx
            /\ BigFound(runOutcome.found[i])
            /\ u.bytes = B64Decode(Val(runOutcome.found[i].input))

WitC13_BigCrashOffloaded ==
    /\ Len(crashMsgs) = 1
    /\ BigFound(runOutcome.found[1])
    /\ crashMsgs[1].input = None
    /\ Cardinality(uploaded) = 1

\* C14 (as claimed): no record of agent_mode.crashes and no emitted crash
\* message ever has both input and input_id, and a record with input_id and
\* without input keeps having no input.
Exclusive(c) == ~(IsSome(c.input) /\ IsSome(c.input_id))
OffloadedRecord(c) == IsNone(c.input) /\ IsSome(c.input_id)
NeverReverted ==
    \A i \in 1..Len(crashes) :
        OffloadedRecord(crashes[i]) => i <= Len(crashes') /\ OffloadedRecord(crashes'[i])
RECURSIVE PayloadsOn(_, _)
PayloadsOn(fs, c) ==
    IF fs = <<>> THEN <<>>
    ELSE (IF Head(fs).ch = c THEN Head(fs).payload ELSE <<>>) \o PayloadsOn(Tail(fs), c)
\* All the text channel c's buffer has held: what was read from it, then
\* what it holds.
EverBuffered(c) == taken[c] \o Val(PeekChannel(ws, c, Some(<<>>)))

\* C15 (as claimed): with stdout and stderr enabled and not combined, what
\* channel 1 and channel 2 have buffered is the concatenation, in arrival
\* order, of the payloads of the frames received on that channel.
CexC15_BufferIsConcatenationOfPayloads ==
    (wsArgs.stdout /\ wsArgs.stderr /\ ~wsArgs.combine_output) =>
        \A c \in {STDOUT_CHANNEL, STDERR_CHANNEL} : EverBuffered(c) = PayloadsOn(frames, c)

\* The frames of fs addressed to stdout or stderr, payloads concatenated in
\* arrival order.
RECURSIVE OutputPayloads(_)
OutputPayloads(fs) ==
    IF fs = <<>> THEN <<>>
    ELSE (IF Head(fs).ch \in {STDOUT_CHANNEL, STDERR_CHANNEL} THEN Head(fs).payload ELSE <<>>)
         \o OutputPayloads(Tail(fs))

\* C16 (as claimed): created with combine_output=True and both streams
\* enabled, channel 1 has buffered the payloads of all stdout and stderr
\* frames in arrival order and channel 2 nothing.
CexC16_StderrCombinedIntoStdout ==
    (wsArgs.stdout /\ wsArgs.stderr /\ wsArgs.combine_output) =>
        /\ EverBuffered(STDOUT_CHANNEL) = OutputPayloads(frames)
        /\ EverBuffered(STDERR_CHANNEL) = <<>>

\* C17 (as claimed): created with stdout disabled, channel 1 never buffers
\* anything; created with stderr disabled, channel 2 never buffers anything
\* and stderr payloads reach no other channel.
CexC17_DisabledChannelDropped ==
    /\ ~wsArgs.stdout => EverBuffered(STDOUT_CHANNEL) = <<>>
    /\ ~wsArgs.stderr =>
        /\ EverBuffered(STDERR_CHANNEL) = <<>>
        /\ wsArgs.stdout => EverBuffered(STDOUT_CHANNEL) = PayloadsOn(frames, STDOUT_CHANNEL)

\* C18: a read of returncode on an open session gives None; the first read
\* that resolves gives 0 for a Success status and the integer of the first
\* cause message otherwise; every later read gives the same value.
ThmC18_ReturncodeStable ==
    \A j \in 1..Len(rcReads) :
        /\ rcReads[j].open => rcReads[j].res = NoResult
        /\ ~rcReads[j].open => rcReads[j].res # NoResult
        /\ (rcReads[j].res.kind = "return" /\ rcReads[j].err = Some(<<"S", "u", "c">>))
              => rcReads[j].res.value = 0
        /\ (rcReads[j].res.kind = "return" /\ rcReads[j].err = Some(<<"F", "1", "2">>))
              => rcReads[j].res.value = 12
        /\ \A i \in 1..(j - 1) :
              rcReads[i].res.kind = "return" => rcReads[j].res = rcReads[i].res

WitC18_SameAfterErrorChannelRead ==
    /\ Len(rcReads) = 2
    /\ rcReads[1].res = Returned(12)
    /\ rcReads[2].err = None
    /\ rcReads[2].res = Returned(12)

\* C19: on a closed session that never received an error-channel frame,
\* every read of returncode raises ApiException.
ThmC19_ClosedWithoutStatusRaises ==
    /\ (~IsOpen(ws) /\ PayloadsOn(frames, ERROR_CHANNEL) = <<>>)
          => WsReturncode(ws) = Raised("ApiException")
    /\ \A j \in 1..Len(rcReads) :
          (~rcReads[j].open /\ PayloadsOn(frames, ERROR_CHANNEL) = <<>>)
              => rcReads[j].res = Raised("ApiException")

WitC19_RaisedTwice ==
    /\ Len(rcReads) = 2
    /\ PayloadsOn(frames, ERROR_CHANNEL) = <<>>
    /\ rcReads[1].res = Raised("ApiException")
    /\ rcReads[2].res = Raised("ApiException")

\* C20: after a close() call is_open() is false; close() raises nothing,
\* whether or not releasing the socket fails; a further close() leaves the
\* client as it is; a CLOSE message received, or a socket found closed, makes
\* is_open() false; once false, is_open() stays false.
CloseReleases == {"ok", "OSError", "RuntimeError"}
ThmC20_CloseIdempotent ==
    /\ [](/\ closeCalls >= 1 => ~IsOpen(ws)
          /\ \A release \in CloseReleases :
                /\ WsCloseResult(ws, release).kind = "return"
                /\ ~IsOpen(WsClose(ws, release))
                /\ closeCalls >= 1 => WsClose(ws, release) = ws
          /\ ~IsOpen(WsUpdate(ws, 5, Event("CLOSE")))
          /\ \A timeout \in {0, 5} : ~IsOpen(WsUpdate(ws, timeout, Event("SOCK_CLOSED"))))
    /\ [][~IsOpen(ws) => ~IsOpen(ws')]_vars

WitC20_ClosedTwice == closeCalls = 2 /\ ~IsOpen(ws) /\ ~ws.sock

(***************************************************************************)
(* Claims about run_forever (under SpecRunForever)                         *)
(***************************************************************************)
\* C21 (as claimed): run_forever ends by returning; with a timeout it has
\* ended only if the session is closed or the deadline has passed, without
\* one only if the session is closed.
CexC21_RunForeverReturnsWhenClosed ==
    rfpc = "ended" =>
        /\ rfResult.kind = "return"
        /\ IF Truthy(rfTimeout) THEN ~IsOpen(ws) \/ rfElapsed >= Val(rfTimeout)
           ELSE ~IsOpen(ws)

(***************************************************************************)
(* Claims about the buffer accessors (under SpecWsOutput)                  *)
(***************************************************************************)
Defaults == {None, Some(<<>>)}

\* C22 (as claimed): for the channel, stdout and stderr accessors, peek gives
\* what the read that follows gives, a second read gives the default, and
\* peek_stdout equals peek_channel(1).
CexC22_PeekEqualsFollowingRead ==
    \A default \in Defaults :
        /\ \A c \in Channels :
              /\ PeekChannel(ws, c, default) = ReadChannel(ws, c, default)
              /\ ReadChannel(PopChannel(ws, c), c, default) = default
        /\ PeekStderr(ws, default) = ReadStderr(ws, default)
        /\ ReadStderr(AfterReadStderr(ws), default) = default
        /\ PeekStdout(ws, default) = ReadStdout(ws, default)
        /\ ReadStdout(AfterReadStdout(ws), default) = default
        /\ PeekStdout(ws, default) = PeekChannel(ws, STDOUT_CHANNEL, default)

(***************************************************************************)
(* Claims about ObjectStorage (under SpecStorage)                          *)
(***************************************************************************)
\* The last call was op on an object last uploaded by upload_op, and nothing
\* went wrong between the client and the service.
DownloadAfter(op, upload_op) ==
    /\ last.op = op
    /\ last.fault = "none"
    /\ put[<<last.bucket, last.key>>].op = upload_op

\* C23: a download of an object by the method matching its upload returns
\* what was uploaded: the bytes for upload_bytes/download_bytes, the file
\* content for upload_file/download_file and for
\* upload_file_gzipped/download_file_gzipped, the files of the directory for
\* upload_archive/download_archive.
ThmC23_UploadDownloadRoundTrip ==
    /\ \A pair \in {<<"download_bytes", "upload_bytes">>,
                    <<"download_file", "upload_file">>,
                    <<"download_file_gzipped", "upload_file_gzipped">>} :
          DownloadAfter(pair[1], pair[2]) =>
              /\ last.res.kind = "return"
              /\ last.res.data = put[<<last.bucket, last.key>>].data
    /\ DownloadAfter("download_archive", "upload_archive") =>
          /\ last.res.kind = "return"
          /\ last.res.tree = put[<<last.bucket, last.key>>].tree

WitC23_GzippedFileRestored ==
    /\ DownloadAfter("download_file_gzipped", "upload_file_gzipped")
    /\ last.res.data = <<0, 0>>
    /\ store[<<last.bucket, last.key>>] # Some(<<0, 0>>)

\* C24: download_file, download_file_gzipped and download_archive of a key
\* that does not exist raise ObjectNotFoundError; download_many_files and
\* download_many_archives with a prefix that lists no key return an empty
\* list of keys.
ThmC24_MissingKeyNotFound ==
    /\ (/\ last.op \in {"download_file", "download_file_gzipped", "download_archive"}
        /\ last.fault = "none"
        /\ IsNone(store[<<last.bucket, last.key>>]))
          => (last.res.kind = "raise" /\ last.res.exc = "ObjectNotFoundError")
    /\ (/\ last.op \in {"download_many_files", "download_many_archives"}
        /\ Listing(store, last.bucket, last.key, KeyOrder) = <<>>)
          => (last.res.kind = "return" /\ last.res.keys = <<>>)

WitC24_ArchiveNotFound ==
    /\ last.op = "download_archive"
    /\ last.fault = "none"
    /\ IsNone(store[<<last.bucket, last.key>>])
    /\ \E o \in Objects : IsSome(store[o])
    /\ last.res.exc = "ObjectNotFoundError"

(***************************************************************************)
(* Claims about agent_entry_inner, second group (under SpecEntry)          *)
(***************************************************************************)
\* An AgentError was raised between initialization and the measured run,
\* nothing else failed and no cancellation was raised.
PreRunAgentError ==
    /\ pc = "done"
    /\ faults = {"pre"}
    /\ cancelAt = "none"
    /\ IsSome(currentExc)
    /\ Val(currentExc).raised.agent

\* C25 (as claimed): an AgentError raised after initialization and before the
\* measured run is reported by exactly one error run-result message and
\* agent_entry_inner returns 2.
CexC25_PreRunAgentErrorReported ==
    PreRunAgentError =>
        /\ Len(reports) = 1
        /\ reports[1].schema = "err"
        /\ retval = Some(Returned(2))

\* The awaits of the post-run sequence: finish(), the produce of a crash
\* message, the produce of the report.
PostRunAwaits == {"finish", "crashes", "dump_ok"}

PostRunOrderStep ==
    /\ (pc' = "metrics" /\ pc # "metrics") => pc = "run"
    /\ (pc' = "finish" /\ pc # "finish") => pc = "metrics"
    /\ (pc' = "crashes" /\ pc # "crashes") => pc = "finish"
    /\ (pc' = "dump_ok" /\ pc # "dump_ok") =>
          pc \in {"finish", "crashes"} /\ Len(crashMsgs') = Len(crashes')
    /\ crashMsgs' # crashMsgs =>
          /\ pc = "crashes"
          /\ reports = <<>>
          /\ crashMsgs' = Append(crashMsgs, crashes'[Len(crashMsgs) + 1])
    /\ (reports' # reports /\ reports'[Len(reports')].schema = "ok") =>
          pc = "dump_ok" /\ reports = <<>>

\* C27: after run() the program reads the metrics, calls finish(), produces
\* one crash message per element of the list in list order, then the single
\* run-result message; no crash message follows the run-result message, and a
\* success report is only produced after finish() and every crash message.
ThmC27_PostRunOrder ==
    /\ [](Len(reports) <= 1)
    /\ []((reports # <<>> /\ reports[1].schema = "ok") => crashMsgs = crashes)
    /\ [][PostRunOrderStep]_vars

WitC27_CrashSentBeforeReport ==
    /\ EntryDone
    /\ RunRaisedAgentError
    /\ Len(crashMsgs) = 2
    /\ crashMsgs[1] # crashMsgs[2]
    /\ Len(reports) = 1
    /\ reports[1].schema = "ok"

\* An error report in the messages produced, if there is one.
ErrReports == {n \in DOMAIN reports : reports[n].schema = "err"}
MetricsUnreadable == "metrics" \in faults

\* C28: on the success path a missing or unparsable metrics file is fatal:
\* no success report is produced and the failure is reported as an error
\* (exit 3); in _dump_err a missing or unparsable file is tolerated and the
\* error report carries the zeroed snapshot.
ThmC28_MetricsFatalThenTolerated ==
    /\ MetricsUnreadable =>
          /\ \A n \in DOMAIN reports : reports[n].schema # "ok"
          /\ crashMsgs = <<>>
          /\ IsSome(currentExc) /\ Val(currentExc).exc = InternalError(None)
    /\ (EntryDone /\ MetricsUnreadable /\ faults = {"metrics"}) =>
          /\ Len(reports) = 1
          /\ reports[1].schema = "err"
          /\ reports[1].status = GenericStatus
          /\ Returns(3)
    /\ \A n \in ErrReports :
          /\ IsSome(metricsRead)
          /\ reports[n].metrics =
                (IF Val(metricsRead) = "ok" THEN FileMetrics ELSE ZeroMetrics)

WitC28_ZeroedSnapshotReported ==
    /\ EntryDone
    /\ MetricsUnreadable
    /\ Val(currentExc).raised.cls = "JSONDecodeError"
    /\ metricsRead = Some("missing")
    /\ Len(reports) = 1
    /\ reports[1].metrics = ZeroMetrics
    /\ Returns(3)

\* The container status read gives no recognized cause: the container is
\* running or waiting, or terminated with an exit code other than 101 and
\* 102 and a reason that is absent or is not "oomkilled".
NoRecognizedCause ==
    /\ IsSome(cont_info)
    /\ \/ ~TerminatedRead
       \/ /\ Val(cont_info).exit_code \notin {101, 102}
          /\ \/ IsNone(Val(cont_info).reason)
             \/ Lower(Strip(Val(Val(cont_info).reason))) # OomKilled

\* C29 (as claimed): with a runner exit code of 102, 137 or 143 and a
\* container status that gives no recognized cause, exec_command raises
\* InternalError.
CexC29_NoRecognizedCauseIsInternalError ==
    (ExecDone /\ (\E c \in AmbiguousCodes : RunnerExit(c)) /\ NoRecognizedCause)
        => xresult = Raised("InternalError")

\* C30 (as claimed): the status read_fuzzer_container returns is that of the
\* container exec_command executes in and read_monitor_output reads the logs
\* of, for every pod with several containers.
CexC30_ReadsTheExecContainer ==
    (Len(cont_statuses) > 1 /\ fuzzerRead.kind = "return") =>
        /\ fuzzerRead.value.name = user_container
        /\ IsSome(execContainer) => fuzzerRead.value.name = Val(execContainer)
        /\ IsSome(logContainer) => fuzzerRead.value.name = Val(logContainer)

\* An invocation of the handler waits for _lock while an invocation below it
\* on the main thread's stack holds it.
HandlerBlocked == hstack # <<>> /\ Top.hpc = "enter" /\ lock

\* C31 (as claimed): the handler never blocks: an invocation that nests
\* inside another one's critical section gets through "with _lock", returns
\* without cancelling again, and the outer invocation then completes.
CexC31_HandlerNeverBlocks == ~HandlerBlocked

\* C32: on every path of agent_entry_inner at most one run-result message is
\* successfully produced: an error handler is only entered while no message
\* has gone out, and a failed produce of _dump_ok leaves none behind.
ThmC32_AtMostOneReport ==
    /\ Len(reports) <= 1
    /\ pc = "dump_err" => reports = <<>>
    /\ "produce_ok" \in faults => \A n \in DOMAIN reports : reports[n].schema = "err"

WitC32_ErrorReportAfterFailedProduce ==
    /\ EntryDone
    /\ "produce_ok" \in faults
    /\ cancelAt = "none"
    /\ produceCalls = 2
    /\ Len(reports) = 1
    /\ reports[1].schema = "err"
    /\ Returns(3)

RunRaisedTimeLimit == runOutcome.kind = "raise" /\ runOutcome.exc.cls = "TimeLimitExceeded"

\* C33 (as claimed): the time-limit outcome reaches the report with a code
\* that is not the code of the generic internal error.
CexC33_TimeLimitHasItsOwnCode ==
    RunRaisedTimeLimit =>
        /\ IsSome(modeStatus) => Val(modeStatus).code # E_INTERNAL_ERROR
        /\ \A n \in DOMAIN reports :
              reports[n].schema = "ok" => reports[n].status.code # E_INTERNAL_ERROR

\* _send_crash raised TypeError on a crash of the list.
SendCrashTypeError == IsSome(currentExc) /\ Val(currentExc).raised.cls = "TypeError"

\* C34 (as claimed): a crash that carries only an input_id is emitted
\* unchanged as one crash message, without an upload and without raising.
CexC34_InputIdOnlyCrashSent ==
    /\ ~SendCrashTypeError
    /\ \A i \in DOMAIN crashMsgs :
          IsNone(runOutcome.found[i].input) =>
              /\ crashMsgs[i] = runOutcome.found[i]
              /\ \A u \in uploaded : u.id # FreshId(i)

UploadFailed == "crash_upload" \in faults

\* C35: when the upload of an oversized crash's input fails, the crash record
\* stays as it was (input inline, no input_id), no crash message is produced
\* for it or for a later crash, and with nothing else failing the run ends
\* with exactly one error run-result message (exit 2).
ThmC35_FailedCrashUploadEndsTheRun ==
    /\ UploadFailed =>
          /\ crashIdx \in DOMAIN crashes
          /\ crashes[crashIdx] = runOutcome.found[crashIdx]
          /\ IsSome(crashes[crashIdx].input) /\ Oversized(Val(crashes[crashIdx].input))
          /\ IsNone(crashes[crashIdx].input_id)
          /\ \A u \in uploaded : u.id # FreshId(crashIdx)
          /\ Len(crashMsgs) = crashIdx - 1
          /\ IsSome(currentExc) /\ Val(currentExc).raised = FileUploadError("crash")
          /\ \A n \in DOMAIN reports : reports[n].schema = "err"
    /\ (EntryDone /\ faults = {"crash_upload"}) =>
          /\ Len(reports) = 1
          /\ reports[1].status = StatusOf(FileUploadError("crash"))
          /\ Returns(2)

WitC35_LaterCrashNotSent ==
    /\ EntryDone
    /\ faults = {"crash_upload"}
    /\ Len(crashes) = 2
    /\ crashIdx = 1
    /\ crashMsgs = <<>>
    /\ Len(reports) = 1

\* The readiness loop used up its range: every read showed a container that
\* is not running.
PollExhausted == pollCount = PollAttempts /\ pc # "poll_sleep"
ModeSelected == measure # "unbound" \/ pc \in {"select", "run"} \/ runOutcome.kind # "none"

\* C36: before the run the container status is read at most PollAttempts
\* times, a sleep following each read that does not show it running; the
\* loop is left at the first read that shows it running, and when no read
\* does the run mode is neither selected nor run and InternalError is raised.
ThmC36_ReadinessPollBounded ==
    /\ [](/\ pollCount <= PollAttempts
          /\ pc = "poll" => pollCount < PollAttempts
          /\ pc = "poll_sleep" => pollCount >= 1 /\ lastRead \in {"waiting", "terminated"}
          /\ ModeSelected => lastRead = "running" /\ pollCount = 0
          /\ PollExhausted =>
                /\ ~ModeSelected
                /\ modeStatus = None
                /\ IsSome(currentExc) /\ Val(currentExc).raised = InternalError(None))
    /\ [][/\ (pc = "poll" /\ pc' = "poll_sleep") => pollCount' = pollCount + 1
          /\ (pc = "poll" /\ lastRead' = "running") => pc' = "select"
          /\ (pc' = "select" /\ pc # "select") => pc = "poll" /\ lastRead' = "running"
          /\ (pc = "poll_sleep" /\ pc' = "poll") => pollCount' = pollCount]_vars

WitC36_ExhaustionIsFatal ==
    EntryDone /\ PollExhausted /\ cancelAt = "none" /\ runOutcome.kind = "none"

\* The last update call was made on a closed session or with a timeout that
\* is not positive.
IdleUpdate ==
    /\ IsSome(lastUpdate)
    /\ ~IsOpen(Val(lastUpdate).before) \/ Val(lastUpdate).timeout <= 0

AttemptedKeys(keys, faultOf) ==
    {keys[i] : i \in {i \in 1..Len(keys) : \A j \in 1..i : faultOf[keys[j]] = "none"}}
HasFaultyKey(keys, faultOf) == \E i \in 1..Len(keys) : faultOf[keys[i]] # "none"

\* C38: delete_unmerged_corpus(keys) works through the keys in order.  A key
\* that is no longer in storage is skipped and the keys after it are still
\* deleted; any other storage error ends the loop with RemoteFileDeleteError
\* and leaves that key and all later ones in storage.
ThmC38_DeleteSkipsMissingStopsOnError ==
    corpus.op = "delete_unmerged_corpus" =>
        LET done == AttemptedKeys(corpus.keys, corpus.faults)
        IN  /\ \A k \in Keys :
                 corpus.after[<<UnmergedCorpusBucket, k>>] =
                     IF k \in done THEN None
                     ELSE corpus.before[<<UnmergedCorpusBucket, k>>]
            /\ corpus.res = IF HasFaultyKey(corpus.keys, corpus.faults)
                            THEN StRaised("RemoteFileDeleteError")
                            ELSE StReturned(<<>>, EmptyDir, <<>>)
WitC38_MissingKeySkippedNextDeleted ==
    /\ corpus.op = "delete_unmerged_corpus"
    /\ corpus.keys = <<KeyA, KeyB>>
    /\ IsNone(corpus.before[<<UnmergedCorpusBucket, KeyA>>])
    /\ IsSome(corpus.before[<<UnmergedCorpusBucket, KeyB>>])
    /\ IsNone(corpus.after[<<UnmergedCorpusBucket, KeyB>>])
    /\ corpus.res.kind = "return"

\* ---- C39
\* The archive under key k of store st was fetched and unpacked by a download
\* with the faults faultOf: it was there, S3 answered, and it is a tar.gz.
FetchedAndExtracted(st, k, faultOf) ==
    /\ IsSome(st[<<UnmergedCorpusBucket, k>>])
    /\ faultOf[k] = "none"
    /\ IsSome(TarGzExtract(Val(st[<<UnmergedCorpusBucket, k>>]), EmptyDir))
\* The keys of KeyOrder[i..] the download fetched and unpacked, in that order.
RECURSIVE FetchedFrom(_, _, _)
FetchedFrom(i, st, faultOf) ==
    IF i > Len(KeyOrder) THEN <<>>
    ELSE (IF FetchedAndExtracted(st, KeyOrder[i], faultOf) THEN <<KeyOrder[i]>> ELSE <<>>)
         \o FetchedFrom(i + 1, st, faultOf)

\* C39: the keys download_unmerged_corpus returns are exactly the keys whose
\* archive was downloaded and extracted, in listing order: a key whose
\* download raised a storage error is not among them.  Hence
\* delete_unmerged_corpus on the returned keys removes no object that was
\* not downloaded.
ThmC39_ReturnedKeysAreTheDownloadedOnes ==
    /\ (corpus.op = "download_unmerged_corpus" /\ corpus.res.kind = "return") =>
          corpus.res.keys = FetchedFrom(1, corpus.before, corpus.faults)
    /\ corpus.op = "delete_downloaded" =>
          \A k \in Keys :
              corpus.after[<<UnmergedCorpusBucket, k>>]
                  # corpus.before[<<UnmergedCorpusBucket, k>>]
              => FetchedAndExtracted(Val(corpus.downloaded).store, k,
                                     Val(corpus.downloaded).faults)
WitC39_FailedKeyKeptDownloadedKeyDeleted ==
    /\ corpus.op = "delete_downloaded"
    /\ Val(corpus.downloaded).keys = <<KeyB>>
    /\ Val(corpus.downloaded).faults[KeyA] = "ClientError403"
    /\ IsSome(Val(corpus.downloaded).store[<<UnmergedCorpusBucket, KeyA>>])
    /\ IsSome(corpus.after[<<UnmergedCorpusBucket, KeyA>>])
    /\ IsSome(corpus.before[<<UnmergedCorpusBucket, KeyB>>])
    /\ IsNone(corpus.after[<<UnmergedCorpusBucket, KeyB>>])

\* ---- C40
\* C40: in the storage migration an old-layout corpus object is deleted only
\* after it was copied to the new-layout key of every revision of its
\* fuzzer, and an object one of whose copies failed is not deleted.
CexC40_DeletedOnlyAfterEveryCopySucceeded ==
    /\ \A src \in mig.deleted :
          \A rev \in mig.revs[src[1]] : NewKeyOf(src, rev) \in mig.new
    /\ \A c \in mig.failed : c[1] \notin mig.deleted

=============================================================================
